---------------------------- MODULE Spec2Model ----------------------------
(***************************************************************************)
(* RavenCare triage system: the per-patient pipeline of                    *)
(* TriageOrchestrator (src/src/triage_orchestrator.py), the doctor         *)
(* matching engine (src/src/services/doctor_matcher.py) and the web        *)
(* front end that starts background runs (src/app.py, src/noapi.py).       *)
(*                                                                         *)
(* Conventions                                                             *)
(*   - a Python dict is a TLA+ function whose DOMAIN is its key set;       *)
(*   - a Python str that the code inspects (title(), lower(), in, split)   *)
(*     is a sequence of one-character strings; a str that is only          *)
(*     compared for equality is a TLA+ string;                             *)
(*   - Python None is None in a dict-typed slot, NoneStr in a str-typed    *)
(*     slot and NoneInt in an int-typed slot;                              *)
(*   - scores are kept in tenths of a point (Tenth), so that rating * 4    *)
(*     and the factor 1.5 stay integers.                                   *)
(***************************************************************************)
EXTENDS Integers, Sequences, FiniteSets, TLC

\* ------------------------------------------------------------------------
\* Bounds of the model
\* ------------------------------------------------------------------------
\* patients one orchestrator processes over its lifetime (all its runs)
MaxPatients == 2

\* patients in the file of a web-started run that has the server to itself
MaxWebPatients == 2

\* patients in the file of each of several concurrently requested runs
MaxRacePatients == 1

\* start requests the server handles concurrently
MaxRequests == 2

\* clients connected to /stream
MaxConsumers == 2

\* heartbeats the stream consumers emit, all together
MaxHeartbeats == 1

\* events one stream consumer takes off the queue
MaxDelivered == 3

\* find_best_doctor calls made on one DoctorMatcher
MaxCalls == 3

\* ------------------------------------------------------------------------
\* Python values
\* ------------------------------------------------------------------------
None == [py_none |-> TRUE]

NoneStr == <<"None">>

NoneInt == 0 - 1

EmptyDict == [k \in {} |-> None]

Get(d, k, default) == IF k \in DOMAIN d THEN d[k] ELSE default

\* ------------------------------------------------------------------------
\* str methods used by the matcher
\* ------------------------------------------------------------------------
LowerChars ==
  <<"a","b","c","d","e","f","g","h","i","j","k","l","m",
    "n","o","p","q","r","s","t","u","v","w","x","y","z">>

UpperChars ==
  <<"A","B","C","D","E","F","G","H","I","J","K","L","M",
    "N","O","P","Q","R","S","T","U","V","W","X","Y","Z">>

IsUpper(c) == \E k \in 1..26 : UpperChars[k] = c

IsLower(c) == \E k \in 1..26 : LowerChars[k] = c

IsAlpha(c) == IsUpper(c) \/ IsLower(c)

LowerChar(c) ==
  IF IsUpper(c) THEN LowerChars[CHOOSE k \in 1..26 : UpperChars[k] = c] ELSE c

UpperChar(c) ==
  IF IsLower(c) THEN UpperChars[CHOOSE k \in 1..26 : LowerChars[k] = c] ELSE c

\* str.lower()
Lower(s) == [k \in 1..Len(s) |-> LowerChar(s[k])]

\* str.title(): a cased character is upper-cased when it follows an uncased
\* character (or starts the string) and lower-cased otherwise
Title(s) ==
  [k \in 1..Len(s) |->
     IF k = 1 \/ ~IsAlpha(s[k - 1]) THEN UpperChar(s[k]) ELSE LowerChar(s[k])]

\* needle in hay (substring test of Python's `in` on two str)
Contains(hay, needle) ==
  \E st \in 0..(Len(hay) - Len(needle)) :
     \A k \in 1..Len(needle) : hay[st + k] = needle[k]

\* ' '.join(list)
RECURSIVE JoinSpace(_)
JoinSpace(l) ==
  IF l = << >> THEN << >>
  ELSE IF Len(l) = 1 THEN l[1]
  ELSE l[1] \o <<" ">> \o JoinSpace(Tail(l))

\* str.split(): the maximal runs of non-blank characters, in order
RECURSIVE SplitFrom(_, _, _)
SplitFrom(s, k, word) ==
  IF k > Len(s) THEN (IF word = << >> THEN << >> ELSE <<word>>)
  ELSE IF s[k] = " "
       THEN (IF word = << >> THEN << >> ELSE <<word>>) \o SplitFrom(s, k + 1, << >>)
       ELSE SplitFrom(s, k + 1, Append(word, s[k]))

Split(s) == SplitFrom(s, 1, << >>)

\* x in list
InList(x, l) == \E k \in 1..Len(l) : l[k] = x

Min(a, b) == IF a < b THEN a ELSE b

\* ------------------------------------------------------------------------
\* Configuration (src/src/config/settings.py)
\* ------------------------------------------------------------------------
SUPPORTED_SPECIALTIES ==
  << <<"c","a","r","d","i","o","l","o","g","y">>,
     <<"d","e","r","m","a","t","o","l","o","g","y">>,
     <<"e","n","t">>,
     <<"g","a","s","t","r","o","e","n","t","e","r","o","l","o","g","y">>,
     <<"h","e","p","a","t","o","l","o","g","y">>,
     <<"n","e","u","r","o","l","o","g","y">>,
     <<"o","p","h","t","h","a","l","m","o","l","o","g","y">>,
     <<"o","r","t","h","p","e","d","i","c","s">>,
     <<"p","e","d","i","a","t","r","i","c","s">>,
     <<"p","s","y","c","h","i","a","t","r","y">>,
     <<"p","u","l","m","o","n","o","l","o","g","y">> >>

\* ------------------------------------------------------------------------
\* Words of the bounded input domain
\* ------------------------------------------------------------------------
S_Cardiology == <<"C","a","r","d","i","o","l","o","g","y">>

S_Pediatrics == <<"P","e","d","i","a","t","r","i","c","s">>

S_Orthopedics == <<"O","r","t","h","o","p","e","d","i","c","s">>

S_ENT == <<"E","N","T">>

S_Interventional == <<"I","n","t","e","r","v","e","n","t","i","o","n","a","l">>

S_Neonatology == <<"N","e","o","n","a","t","o","l","o","g","y">>

S_Gastroenterology ==
  <<"G","a","s","t","r","o","e","n","t","e","r","o","l","o","g","y">>

\* a request naming part of a catalog key
S_Pediatric == <<"p","e","d","i","a","t","r","i","c">>

\* a request naming two catalog keys
S_CardiologyPediatrics ==
  <<"c","a","r","d","i","o","l","o","g","y"," ",
    "p","e","d","i","a","t","r","i","c","s">>

S_Stent == <<"s","t","e","n","t">>

S_Diabetes == <<"d","i","a","b","e","t","e","s">>

\* ------------------------------------------------------------------------
\* The doctor data directory read at construction.  The JSON files are data,
\* not code; this is the bounded directory the model runs on: two
\* cardiologists, an ENT department without doctors, one orthopedist, one
\* pediatrician, an unreadable dermatology file and no other file.
\* ------------------------------------------------------------------------
DrRao ==
  [name |-> "Rao", slots |-> <<"09:00", "11:00">>,
   languages_spoken |-> <<"English", "Hindi">>, patient_rating |-> 4500,
   experience_years |-> 10, sub_specialization |-> S_Interventional,
   awards |-> <<"award">>]

DrSen ==
  [name |-> "Sen", slots |-> <<"14:00">>, languages_spoken |-> <<"English">>,
   patient_rating |-> 4800, experience_years |-> 20]

DrKim ==
  [name |-> "Kim", slots |-> <<"09:00">>, languages_spoken |-> <<"Hindi">>,
   patient_rating |-> 4000, experience_years |-> 5,
   sub_specialization |-> S_Neonatology]

DrOrt ==
  [name |-> "Ort", slots |-> << >>, languages_spoken |-> <<"English">>,
   patient_rating |-> 3500, experience_years |-> 12]

MissingFile == [exists |-> FALSE, readable |-> FALSE, data |-> EmptyDict]

UnreadableFile == [exists |-> TRUE, readable |-> FALSE, data |-> EmptyDict]

JsonFile(d) == [exists |-> TRUE, readable |-> TRUE, data |-> d]

DoctorFiles ==
  << JsonFile([departments |-> << [specialty |-> S_Cardiology,
                                   doctors |-> <<DrRao, DrSen>>] >>]),
     UnreadableFile,
     JsonFile([departments |-> << [specialty |-> S_ENT, doctors |-> << >>] >>]),
     MissingFile,
     MissingFile,
     MissingFile,
     MissingFile,
     JsonFile([departments |-> << [specialty |-> S_Orthopedics,
                                   doctors |-> <<DrOrt>>] >>]),
     JsonFile([departments |-> << [specialty |-> S_Pediatrics,
                                   doctors |-> <<DrKim>>] >>]),
     MissingFile,
     JsonFile([hospital_name |-> "General"]) >>

\* A second data directory: four cardiologists, two of them alike in all
\* but the name and one without slots, an ENT department without doctors, one gastroenterologist
\* and one pediatrician.
DrRoy == [DrRao EXCEPT !.name = "Roy"]

DrGil ==
  [name |-> "Gil", slots |-> <<"14:00">>, languages_spoken |-> <<"Hindi">>,
   patient_rating |-> 4999, experience_years |-> 10,
   awards |-> <<"award", "award", "award">>]

ClinicFiles ==
  << JsonFile([departments |-> << [specialty |-> S_Cardiology,
                                   doctors |-> <<DrRao, DrRoy, DrSen, DrOrt>>] >>]),
     MissingFile,
     JsonFile([departments |-> << [specialty |-> S_ENT, doctors |-> << >>] >>]),
     JsonFile([departments |-> << [specialty |-> S_Gastroenterology,
                                   doctors |-> <<DrGil>>] >>]),
     MissingFile,
     MissingFile,
     MissingFile,
     MissingFile,
     JsonFile([departments |-> << [specialty |-> S_Pediatrics,
                                   doctors |-> <<DrKim>>] >>]),
     MissingFile,
     MissingFile >>

\* ------------------------------------------------------------------------
\* DoctorMatcher.load_doctor_database: the catalog as the list of
\* (key, department) pairs in dict insertion order
\* ------------------------------------------------------------------------
RECURSIVE LoadFrom(_, _)
LoadFrom(files, k) ==
  IF k > Len(SUPPORTED_SPECIALTIES) THEN << >>
  ELSE LET f == files[k]
           loaded == /\ f.exists
                     /\ f.readable
                     /\ "departments" \in DOMAIN f.data
                     /\ Len(f.data["departments"]) > 0
       IN  (IF loaded
            THEN << [key |-> Title(SUPPORTED_SPECIALTIES[k]),
                     department |-> f.data["departments"][1]] >>
            ELSE << >>) \o LoadFrom(files, k + 1)

load_doctor_database(files) == LoadFrom(files, 1)

\* ------------------------------------------------------------------------
\* DoctorMatcher.find_best_doctor
\* Scores are integers in thousandths of a point; patient_rating is in
\* thousandths of a star.
\* ------------------------------------------------------------------------
Points(n) == n * 1000

\* round(x, 2) on thousandths: to the nearest hundredth, ties to even
Round2(m) ==
  LET q == m \div 10
      r == m % 10
  IN  IF r > 5 \/ (r = 5 /\ q % 2 = 1) THEN (q + 1) * 10 ELSE q * 10

\* key in self.doctors_database
HasKey(db, key) == \E k \in 1..Len(db) : db[k].key = key

\* self.doctors_database[key]
Lookup(db, key) == db[CHOOSE k \in 1..Len(db) : db[k].key = key].department

\* lines 109-116: the loop over the keys in insertion order, left at the
\* first key that contains the lower-cased request or is contained in it
RECURSIVE FuzzyFrom(_, _, _)
FuzzyFrom(db, specialty, k) ==
  IF k > Len(db) THEN None
  ELSE LET specialty_lower == Lower(specialty)
           key_lower == Lower(db[k].key)
       IN  IF \/ Contains(key_lower, specialty_lower)
              \/ Contains(specialty_lower, key_lower)
           THEN db[k].department
           ELSE FuzzyFrom(db, specialty, k + 1)

\* variant of ResolveDepartment: the substring search comes first
ResolveDepartment_FuzzyFirst(db, specialty) ==
  IF FuzzyFrom(db, specialty, 1) # None THEN FuzzyFrom(db, specialty, 1)
  ELSE IF HasKey(db, Title(specialty)) THEN Lookup(db, Title(specialty))
  ELSE None

\* lines 101-120: the exact key first, else the fuzzy search; None when no
\* key fits
ResolveDepartment(db, specialty) ==
  IF HasKey(db, Title(specialty)) THEN Lookup(db, Title(specialty))
  ELSE FuzzyFrom(db, specialty, 1)

\* variant of SlotScore: another slot than the preferred one earns 30
SlotScore_Alternative30(doctor, preferred_slot, urgency_score) ==
  LET doctor_slots == Get(doctor, "slots", << >>)
      base == IF InList(preferred_slot, doctor_slots) THEN Points(40)
              ELSE IF doctor_slots # << >> THEN Points(30)
              ELSE 0
  IN  IF urgency_score >= 70 THEN (base * 3) \div 2 ELSE base

\* variant of SlotScore: the boost starts above 70
SlotScore_Above70(doctor, preferred_slot, urgency_score) ==
  LET doctor_slots == Get(doctor, "slots", << >>)
      base == IF InList(preferred_slot, doctor_slots) THEN Points(40)
              ELSE IF doctor_slots # << >> THEN Points(20)
              ELSE 0
  IN  IF urgency_score > 70 THEN (base * 3) \div 2 ELSE base

\* lines 136-153
SlotScore(doctor, preferred_slot, urgency_score) ==
  LET doctor_slots == Get(doctor, "slots", << >>)
      base == IF InList(preferred_slot, doctor_slots) THEN Points(40)
              ELSE IF doctor_slots # << >> THEN Points(20)
              ELSE 0
  IN  IF urgency_score >= 70 THEN (base * 3) \div 2 ELSE base

SlotDetail(doctor, preferred_slot) ==
  LET doctor_slots == Get(doctor, "slots", << >>)
  IN  IF InList(preferred_slot, doctor_slots) THEN "exact"
      ELSE IF doctor_slots # << >> THEN "alternative"
      ELSE "none"

\* lines 155-161
LanguageMatch(doctor, patient_language) ==
  InList(patient_language, Get(doctor, "languages_spoken", << >>))

LanguageScore(doctor, patient_language) ==
  IF LanguageMatch(doctor, patient_language) THEN Points(25) ELSE 0

\* variant of RatingScore: five points per star
RatingScore_Times5(doctor) == Get(doctor, "patient_rating", 0) * 5

\* lines 163-167
RatingScore(doctor) == Get(doctor, "patient_rating", 0) * 4

\* lines 169-174
ExperienceScore(doctor) == Points(Min(Get(doctor, "experience_years", 0), 15))

\* lines 176-197: "strong", "partial", "condition_based" or "" (no entry)
SubSpecMatch(doctor, sub_specialization_hint, patient_conditions) ==
  LET sub_spec == Lower(Get(doctor, "sub_specialization", << >>))
  IN  IF sub_specialization_hint # NoneStr /\ sub_specialization_hint # << >>
      THEN LET hint_lower == Lower(sub_specialization_hint)
               words == Split(hint_lower)
           IN  IF \/ Contains(sub_spec, hint_lower)
                  \/ \E k \in 1..Len(words) : Contains(sub_spec, words[k])
               THEN "strong"
               ELSE IF sub_spec # << >> THEN "partial" ELSE ""
      ELSE IF patient_conditions # << >>
           THEN LET keywords == Split(Lower(JoinSpace(patient_conditions)))
                IN  IF \E k \in 1..Len(keywords) : Contains(sub_spec, keywords[k])
                    THEN "condition_based" ELSE ""
           ELSE ""

\* variant of SubSpecScore: the credit for the conditions is added on top
\* of the credit for the hint
SubSpecScore_Both(doctor, sub_specialization_hint, patient_conditions) ==
  LET m == SubSpecMatch(doctor, sub_specialization_hint, patient_conditions)
      c == SubSpecMatch(doctor, NoneStr, patient_conditions)
  IN  (IF m = "strong" THEN Points(30)
       ELSE IF m = "partial" THEN Points(10)
       ELSE IF m = "condition_based" THEN Points(20)
       ELSE 0)
      + (IF m \in {"strong", "partial"} /\ c = "condition_based"
         THEN Points(20) ELSE 0)

SubSpecScore(doctor, sub_specialization_hint, patient_conditions) ==
  LET m == SubSpecMatch(doctor, sub_specialization_hint, patient_conditions)
  IN  IF m = "strong" THEN Points(30)
      ELSE IF m = "partial" THEN Points(10)
      ELSE IF m = "condition_based" THEN Points(20)
      ELSE 0

\* variant of AwardsScore: five points per award, without the cap
AwardsScore_Uncapped(doctor) == Points(Len(Get(doctor, "awards", << >>)) * 5)

\* lines 199-203
AwardsScore(doctor) ==
  LET awards == Get(doctor, "awards", << >>)
  IN  IF awards # << >> THEN Points(Min(Len(awards) * 5, 10)) ELSE 0

\* lines 205-214: "pediatric", "geriatric_experienced" or "" (no entry)
AgeAppropriate(doctor, patient_age, specialty_normalized) ==
  IF patient_age # NoneInt
  THEN IF patient_age < 18 /\ specialty_normalized = S_Pediatrics
       THEN "pediatric"
       ELSE IF patient_age >= 65 /\ Get(doctor, "experience_years", 0) >= 10
            THEN "geriatric_experienced" ELSE ""
  ELSE ""

AgeScore(doctor, patient_age, specialty_normalized) ==
  LET a == AgeAppropriate(doctor, patient_age, specialty_normalized)
  IN  IF a = "pediatric" THEN Points(10)
      ELSE IF a = "geriatric_experienced" THEN Points(5)
      ELSE 0

\* lines 216-224: "True", "routine" or "" (no entry); Python stores the
\* bool True in the first case
UrgencyExperienceMatch(doctor, urgency_score) ==
  LET experience_years == Get(doctor, "experience_years", 0)
  IN  IF urgency_score >= 80 /\ experience_years >= 15 THEN "True"
      ELSE IF urgency_score < 50 /\ experience_years < 10 THEN "routine"
      ELSE ""

UrgencyExperienceScore(doctor, urgency_score) ==
  LET u == UrgencyExperienceMatch(doctor, urgency_score)
  IN  IF u = "True" THEN Points(10) ELSE IF u = "routine" THEN Points(5) ELSE 0

\* lines 133-224: the total of one doctor
DoctorScore(doctor, specialty_normalized, preferred_slot, patient_language, urgency_score, patient_age, sub_specialization_hint, patient_conditions) ==
    SlotScore(doctor, preferred_slot, urgency_score)
  + LanguageScore(doctor, patient_language)
  + RatingScore(doctor)
  + ExperienceScore(doctor)
  + SubSpecScore(doctor, sub_specialization_hint, patient_conditions)
  + AwardsScore(doctor)
  + AgeScore(doctor, patient_age, specialty_normalized)
  + UrgencyExperienceScore(doctor, urgency_score)

\* one optional dict entry: present only under cond
Entry(cond, k, v) == IF cond THEN (k :> v) ELSE EmptyDict

\* lines 134-224: the details dict of one doctor
DoctorDetails(doctor, specialty_normalized, preferred_slot, patient_language, urgency_score, patient_age, sub_specialization_hint, patient_conditions) ==
  LET sub == SubSpecMatch(doctor, sub_specialization_hint, patient_conditions)
      age == AgeAppropriate(doctor, patient_age, specialty_normalized)
      urg == UrgencyExperienceMatch(doctor, urgency_score)
  IN  [slot_match |-> SlotDetail(doctor, preferred_slot),
       language_match |-> LanguageMatch(doctor, patient_language),
       rating_score |-> Get(doctor, "patient_rating", 0),
       experience_years |-> Get(doctor, "experience_years", 0)]
      @@ Entry(sub # "", "sub_spec_match", sub)
      @@ Entry(Get(doctor, "awards", << >>) # << >>, "has_awards", TRUE)
      @@ Entry(age # "", "age_appropriate", age)
      @@ Entry(urg # "", "urgency_experience_match", urg)

\* lines 128-130 and 226-230: the first doctor, in list order, whose score
\* is strictly greater than every score before it wins
RECURSIVE BestIndexFrom(_, _, _, _)
BestIndexFrom(scores, k, best_score, best_index) ==
  IF k > Len(scores) THEN best_index
  ELSE IF scores[k] > best_score
       THEN BestIndexFrom(scores, k + 1, scores[k], k)
       ELSE BestIndexFrom(scores, k + 1, best_score, best_index)

\* variant of BestIndex: among equal best scores the last doctor wins
BestIndex_LastWins(scores) ==
  IF scores = << >> THEN 0
  ELSE CHOOSE b \in 1..Len(scores) :
         /\ \A k \in 1..Len(scores) : scores[k] <= scores[b]
         /\ \A k \in (b + 1)..Len(scores) : scores[k] < scores[b]

BestIndex(scores) == BestIndexFrom(scores, 1, 0 - 1, 0)

\* lines 236-241
MatchQuality(best_score) ==
  IF best_score >= Points(100) THEN "excellent"
  ELSE IF best_score >= Points(70) THEN "good"
  ELSE IF best_score >= Points(50) THEN "fair"
  ELSE "low"

\* lines 122-243: the scored doctors of the resolved department and the
\* annotated copy of the best one
BestOf(doctors, scores, b, specialty_normalized, preferred_slot, patient_language, urgency_score, patient_age, sub_specialization_hint, patient_conditions) ==
  IF doctors = << >> \/ b = 0 THEN None
  ELSE IF DOMAIN doctors[b] = {} THEN doctors[b]
  ELSE [match_score |-> Round2(scores[b]),
        match_details |->
          DoctorDetails(doctors[b], specialty_normalized, preferred_slot,
                        patient_language, urgency_score, patient_age,
                        sub_specialization_hint, patient_conditions),
        match_quality |-> MatchQuality(scores[b])]
       @@ doctors[b]

ScoreAll(doctors, specialty_normalized, preferred_slot, patient_language, urgency_score, patient_age, sub_specialization_hint, patient_conditions) ==
  [k \in 1..Len(doctors) |->
     DoctorScore(doctors[k], specialty_normalized, preferred_slot,
                 patient_language, urgency_score, patient_age,
                 sub_specialization_hint, patient_conditions)]

MatchIn(department, specialty_normalized, preferred_slot, patient_language, urgency_score, patient_age, sub_specialization_hint, patient_conditions) ==
  IF department = None THEN None
  ELSE LET doctors == Get(department, "doctors", << >>)
           scores == ScoreAll(doctors, specialty_normalized, preferred_slot,
                              patient_language, urgency_score, patient_age,
                              sub_specialization_hint, patient_conditions)
       IN  BestOf(doctors, scores, BestIndex(scores), specialty_normalized,
                  preferred_slot, patient_language, urgency_score,
                  patient_age, sub_specialization_hint, patient_conditions)

\* lines 67-243.  The outcome is [raised |-> TRUE] when the call raises
\* (specialty is None: None has no title()), else [raised |-> FALSE,
\* value |-> the returned doctor copy or None].
find_best_doctor(db, specialty, preferred_slot, patient_language, urgency_score, patient_age, sub_specialization_hint, patient_conditions) ==
  IF specialty = NoneStr THEN [raised |-> TRUE, value |-> None]
  ELSE [raised |-> FALSE,
        value |-> MatchIn(ResolveDepartment(db, specialty), Title(specialty),
                          preferred_slot, patient_language, urgency_score,
                          patient_age, sub_specialization_hint,
                          patient_conditions)]

\* ------------------------------------------------------------------------
\* Bounded inputs of a run: the patient file and what the three assessment
\* stages (external model calls) answer
\* ------------------------------------------------------------------------
PatientA ==
  [name |-> "Asha", age |-> 54, symptoms |-> "chest pain",
   preferred_slot |-> "09:00", preferred_language |-> "Hindi",
   pre_existing_conditions |-> <<S_Diabetes>>]

PatientB == [name |-> "Bo", age |-> 7, symptoms |-> "fever"]

PatientC == [name |-> "Cy", symptoms |-> "rash", preferred_slot |-> "14:00"]

PatientPool == <<PatientA, PatientB, PatientC>>

\* the patient file with n entries
PatientFile(n) == [k \in 1..n |-> PatientPool[((k - 1) % Len(PatientPool)) + 1]]

GeminiFull ==
  [primary_specialty |-> S_Cardiology, potential_conditions |-> <<S_Stent>>]

GrokFull == [urgency_score |-> 85, risk_level |-> "High"]

O4Full == [final_specialty |-> S_Pediatrics, consultation_priority |-> "Urgent"]

\* What a stage call can do: raise, return JSON that is not an object
\* (json.loads accepts null, numbers, lists), or return a dict, possibly
\* without the documented keys.
Raises == [kind |-> "raise", val |-> EmptyDict]

NotDict == [kind |-> "notdict", val |-> None]

Returns(d) == [kind |-> "ok", val |-> d]

MappingOutcomes == {Raises, NotDict, Returns(GeminiFull), Returns(EmptyDict)}

UrgencyOutcomes == {Raises, NotDict, Returns(GrokFull), Returns(EmptyDict)}

EvaluationOutcomes == {Raises, NotDict, Returns(O4Full), Returns(EmptyDict)}

\* str(e): the text of the exception, opaque to the program
ErrorText == "error"

\* ------------------------------------------------------------------------
\* State
\* ------------------------------------------------------------------------
VARIABLES
  doctors_database,  \* DoctorMatcher.doctors_database of the orchestrator
  results,           \* TriageOrchestrator.results
  pc,                \* where TriageOrchestrator.run stands
  patients,          \* run: the loaded patient list
  i,                 \* run: the 1-based loop index
  result,            \* process_patient: the dict under construction
  calls,             \* the stage and matcher invocations of the current run
  base,              \* len(self.results) when the current run was called
  processing_status, \* app.py: the global status dict
  update_queue,      \* app.py: the global queue of streamed updates
  triage_instance,   \* app.py: the global orchestrator of the web runs
  handler,           \* per start request: where start_triage stands
  thread,            \* per start request: its background thread
  delivered,         \* per stream consumer: what event_stream has yielded
  discarded,         \* the updates the clearing loop of start_triage took out
  query,             \* the arguments of a direct find_best_doctor call
  answer,            \* what that call returned
  earlier            \* the calls made before it on the same DoctorMatcher

cli_vars == <<doctors_database, results, pc, patients, i, result, calls, base>>

web_vars ==
  <<processing_status, update_queue, triage_instance, handler, thread,
    delivered, discarded>>

match_vars == <<query, answer, earlier>>

vars == <<cli_vars, web_vars, match_vars>>

\* ------------------------------------------------------------------------
\* TriageOrchestrator.process_patient
\* ------------------------------------------------------------------------
\* lines 97-101 (the timestamp is left out of the record)
NewResult(patient_data) == [patient |-> patient_data, analyses |-> EmptyDict]

\* variant of CatchStage: a handler that lets the exception go on
CatchStage_Propagates(key, analyses) == [raised |-> TRUE, analyses |-> analyses]

\* the except clauses of lines 112-114, 126-128 and 143-145: the slot gets
\* the placeholder and nothing propagates
CatchStage(key, analyses) ==
  [raised |-> FALSE, analyses |-> (key :> [error |-> ErrorText]) @@ analyses]

\* variant of StageStep: whatever the stage returned stays in the slot
StageStep_KeepsReturn(key, analyses, ready, outcome) ==
  IF ready /\ outcome.kind \in {"ok", "notdict"}
  THEN [raised |-> FALSE, analyses |-> (key :> outcome.val) @@ analyses]
  ELSE [raised |-> FALSE, analyses |-> (key :> [error |-> ErrorText]) @@ analyses]

\* One stage inside its try block.  ready is FALSE when evaluating the
\* arguments already raises (a missing analyses key); a return value that is
\* not a dict is stored and then makes the .get of the following print raise.
StageStep(key, analyses, ready, outcome) ==
  IF ready /\ outcome.kind = "ok"
  THEN [raised |-> FALSE, analyses |-> (key :> outcome.val) @@ analyses]
  ELSE CatchStage(key, analyses)

\* variant of MatchArgs: urgency defaults to 0 (the default the web path
\* uses for display) instead of 50
MatchArgs_DefaultZero(patient_data, analyses) ==
  LET potential_conditions ==
        Get(analyses["gemini"], "potential_conditions", << >>)
  IN  [specialty |-> Get(analyses["o4mini"], "final_specialty",
                         Get(analyses["gemini"], "primary_specialty", NoneStr)),
       preferred_slot |-> Get(patient_data, "preferred_slot", "09:00"),
       patient_language |-> Get(patient_data, "preferred_language", "English"),
       urgency_score |-> Get(analyses["grok"], "urgency_score", 0),
       patient_age |-> Get(patient_data, "age", NoneInt),
       sub_specialization_hint |->
         IF potential_conditions # << >> THEN potential_conditions[1]
         ELSE NoneStr,
       patient_conditions |-> Get(patient_data, "pre_existing_conditions", << >>)]

\* variant of MatchArgs: the specialty of the mapping stage comes first
MatchArgs_MappingFirst(patient_data, analyses) ==
  LET potential_conditions ==
        Get(analyses["gemini"], "potential_conditions", << >>)
  IN  [specialty |-> Get(analyses["gemini"], "primary_specialty",
                         Get(analyses["o4mini"], "final_specialty", NoneStr)),
       preferred_slot |-> Get(patient_data, "preferred_slot", "09:00"),
       patient_language |-> Get(patient_data, "preferred_language", "English"),
       urgency_score |-> Get(analyses["grok"], "urgency_score", 50),
       patient_age |-> Get(patient_data, "age", NoneInt),
       sub_specialization_hint |->
         IF potential_conditions # << >> THEN potential_conditions[1]
         ELSE NoneStr,
       patient_conditions |-> Get(patient_data, "pre_existing_conditions", << >>)]

\* variant of MatchArgs: the hint is taken from the evaluation result
MatchArgs_HintFromEvaluation(patient_data, analyses) ==
  LET potential_conditions ==
        Get(analyses["o4mini"], "potential_conditions", << >>)
  IN  [specialty |-> Get(analyses["o4mini"], "final_specialty",
                         Get(analyses["gemini"], "primary_specialty", NoneStr)),
       preferred_slot |-> Get(patient_data, "preferred_slot", "09:00"),
       patient_language |-> Get(patient_data, "preferred_language", "English"),
       urgency_score |-> Get(analyses["grok"], "urgency_score", 50),
       patient_age |-> Get(patient_data, "age", NoneInt),
       sub_specialization_hint |->
         IF potential_conditions # << >> THEN potential_conditions[1]
         ELSE NoneStr,
       patient_conditions |-> Get(patient_data, "pre_existing_conditions", << >>)]

\* variant of MatchArgs: the urgency score is always the default
MatchArgs_UrgencyAlways50(patient_data, analyses) ==
  LET potential_conditions ==
        Get(analyses["gemini"], "potential_conditions", << >>)
  IN  [specialty |-> Get(analyses["o4mini"], "final_specialty",
                         Get(analyses["gemini"], "primary_specialty", NoneStr)),
       preferred_slot |-> Get(patient_data, "preferred_slot", "09:00"),
       patient_language |-> Get(patient_data, "preferred_language", "English"),
       urgency_score |-> 50,
       patient_age |-> Get(patient_data, "age", NoneInt),
       sub_specialization_hint |->
         IF potential_conditions # << >> THEN potential_conditions[1]
         ELSE NoneStr,
       patient_conditions |-> Get(patient_data, "pre_existing_conditions", << >>)]

\* lines 150-177: the arguments of the matcher call
MatchArgs(patient_data, analyses) ==
  LET potential_conditions ==
        Get(analyses["gemini"], "potential_conditions", << >>)
  IN  [specialty |-> Get(analyses["o4mini"], "final_specialty",
                         Get(analyses["gemini"], "primary_specialty", NoneStr)),
       preferred_slot |-> Get(patient_data, "preferred_slot", "09:00"),
       patient_language |-> Get(patient_data, "preferred_language", "English"),
       urgency_score |-> Get(analyses["grok"], "urgency_score", 50),
       patient_age |-> Get(patient_data, "age", NoneInt),
       sub_specialization_hint |->
         IF potential_conditions # << >> THEN potential_conditions[1]
         ELSE NoneStr,
       patient_conditions |-> Get(patient_data, "pre_existing_conditions", << >>)]

CallMatcher(db, a) ==
  find_best_doctor(db, a.specialty, a.preferred_slot, a.patient_language,
                   a.urgency_score, a.patient_age, a.sub_specialization_hint,
                   a.patient_conditions)

\* variant of CatchMatch: a handler that lets the exception go on
CatchMatch_Propagates(r, called) ==
  [raised |-> TRUE, called |-> called, failed |-> TRUE, result |-> r]

\* the except clause of lines 192-194
CatchMatch(r, called) ==
  [raised |-> FALSE, called |-> called, failed |-> TRUE,
   result |-> ("matched_doctor" :> None) @@ r]

\* lines 147-194: called says whether find_best_doctor was reached, failed
\* whether the try block raised
MatchOutcome(r, ready, out) ==
  IF ready /\ ~out.raised
  THEN [raised |-> FALSE, called |-> TRUE, failed |-> FALSE,
        result |-> ("matched_doctor" :> out.value) @@ r]
  ELSE CatchMatch(r, ready)

MatchStep(db, r) ==
  IF {"gemini", "grok", "o4mini"} \subseteq DOMAIN r.analyses
  THEN MatchOutcome(r, TRUE, CallMatcher(db, MatchArgs(r.patient, r.analyses)))
  ELSE CatchMatch(r, FALSE)

\* lines 97-198 as a whole: the record process_patient returns for a subject
\* whose stages answer g, u and o
process_patient(db, patient_data, g, u, o) ==
  LET mapped == StageStep("gemini", NewResult(patient_data).analyses, TRUE, g)
      assessed == StageStep("grok", mapped.analyses, TRUE, u)
      evaluated == StageStep("o4mini", assessed.analyses, TRUE, o)
  IN  MatchStep(db, [NewResult(patient_data) EXCEPT
                       !.analyses = evaluated.analyses]).result

\* ------------------------------------------------------------------------
\* TriageOrchestrator.run, one action per step of the loop body
\* ------------------------------------------------------------------------
NoResult == EmptyDict

Requests == 1..MaxRequests

\* app.py lines 35-42
IdleStatus ==
  [is_running |-> FALSE, current_patient |-> 0, total_patients |-> 0,
   progress |-> 0, current_step |-> "idle", results |-> << >>]

\* app.py line 34: triage_instance = None (owner 0)
NoInstance == [owner |-> 0, results |-> << >>]

NoThread ==
  [pc |-> "none", file |-> 0, patients |-> << >>, i |-> 0, cause |-> ""]

\* the clients connected to /stream
Consumers == 1..MaxConsumers

\* no direct call of the matcher is under way
NoQuery == EmptyDict

NoAnswer == [done |-> FALSE, raised |-> FALSE, value |-> None]

Init ==
  /\ processing_status = IdleStatus
  /\ update_queue = << >>
  /\ triage_instance = NoInstance
  /\ handler = [r \in Requests |-> "new"]
  /\ thread = [r \in Requests |-> NoThread]
  /\ delivered = [c \in Consumers |-> << >>]
  /\ discarded = {}
  /\ query = NoQuery
  /\ answer = NoAnswer
  /\ earlier = << >>
  /\ doctors_database = load_doctor_database(DoctorFiles)
  /\ results = << >>
  /\ pc = "idle"
  /\ patients = << >>
  /\ i = 0
  /\ result = NoResult
  /\ calls = << >>
  /\ base = 0

\* the loop header of line 253 followed by lines 91-101 of process_patient
EnterLoop(list, k) ==
  IF k <= Len(list)
  THEN /\ i' = k
       /\ result' = NewResult(list[k])
       /\ pc' = "mapping"
  ELSE /\ i' = k
       /\ result' = NoResult
       /\ pc' = "reports"

\* lines 245-253: run is called (again) and the patient file loads
RunStart(n) ==
  /\ pc \in {"idle", "done", "raised"}
  /\ Len(results) + n <= MaxPatients
  /\ patients' = PatientFile(n)
  /\ calls' = << >>
  /\ base' = Len(results)
  /\ EnterLoop(PatientFile(n), 1)
  /\ UNCHANGED <<doctors_database, results, web_vars, match_vars>>

\* line 247: load_patients raises (no such file, invalid JSON)
RunLoadFails ==
  /\ pc \in {"idle", "done"}
  /\ pc' = "raised"
  /\ patients' = << >>
  /\ calls' = << >>
  /\ i' = 0
  /\ base' = Len(results)
  /\ UNCHANGED <<doctors_database, results, result, web_vars, match_vars>>

\* lines 103-114
Mapping ==
  /\ pc = "mapping"
  /\ \E outcome \in MappingOutcomes :
       LET step == StageStep("gemini", result.analyses, TRUE, outcome)
       IN  /\ calls' = Append(calls, [step |-> "mapping", subject |-> i,
                                      failed |-> outcome.kind # "ok",
                                      patient |-> result.patient])
           /\ IF step.raised
              THEN pc' = "raised" /\ UNCHANGED result
              ELSE /\ result' = [result EXCEPT !.analyses = step.analyses]
                   /\ pc' = "urgency"
  /\ UNCHANGED <<doctors_database, results, patients, i, base, web_vars, match_vars>>

\* variant of Urgency: the stage is skipped once mapping has failed
Urgency_SkippedAfterError ==
  /\ pc = "urgency"
  /\ \E outcome \in UrgencyOutcomes :
       LET ready == /\ "gemini" \in DOMAIN result.analyses
                    /\ "error" \notin DOMAIN result.analyses["gemini"]
           step == StageStep("grok", result.analyses, ready, outcome)
       IN  /\ calls' = IF ready
                       THEN Append(calls, [step |-> "urgency", subject |-> i,
                                           failed |-> outcome.kind # "ok",
                                           patient |-> result.patient,
                                           gemini |-> result.analyses["gemini"]])
                       ELSE calls
           /\ result' = [result EXCEPT !.analyses = step.analyses]
           /\ pc' = "evaluation"
  /\ UNCHANGED <<doctors_database, results, patients, i, base, web_vars, match_vars>>

\* lines 116-128
Urgency ==
  /\ pc = "urgency"
  /\ \E outcome \in UrgencyOutcomes :
       LET ready == "gemini" \in DOMAIN result.analyses
           step == StageStep("grok", result.analyses, ready, outcome)
       IN  /\ calls' = IF ready
                       THEN Append(calls, [step |-> "urgency", subject |-> i,
                                           failed |-> outcome.kind # "ok",
                                           patient |-> result.patient,
                                           gemini |-> result.analyses["gemini"]])
                       ELSE calls
           /\ IF step.raised
              THEN pc' = "raised" /\ UNCHANGED result
              ELSE /\ result' = [result EXCEPT !.analyses = step.analyses]
                   /\ pc' = "evaluation"
  /\ UNCHANGED <<doctors_database, results, patients, i, base, web_vars, match_vars>>

\* variant of Evaluation: from the second subject on, the stage is handed
\* the mapping result stored for the first subject of the run
Evaluation_FirstMapping ==
  /\ pc = "evaluation"
  /\ \E outcome \in EvaluationOutcomes :
       LET ready == {"gemini", "grok"} \subseteq DOMAIN result.analyses
           step == StageStep("o4mini", result.analyses, ready, outcome)
           mapping == IF i > 1 THEN results[base + 1].analyses["gemini"]
                      ELSE result.analyses["gemini"]
       IN  /\ calls' = IF ready
                       THEN Append(calls, [step |-> "evaluation", subject |-> i,
                                           failed |-> outcome.kind # "ok",
                                           patient |-> result.patient,
                                           gemini |-> mapping,
                                           grok |-> result.analyses["grok"]])
                       ELSE calls
           /\ IF step.raised
              THEN pc' = "raised" /\ UNCHANGED result
              ELSE /\ result' = [result EXCEPT !.analyses = step.analyses]
                   /\ pc' = "matching"
  /\ UNCHANGED <<doctors_database, results, patients, i, base, web_vars, match_vars>>

\* lines 130-145
Evaluation ==
  /\ pc = "evaluation"
  /\ \E outcome \in EvaluationOutcomes :
       LET ready == {"gemini", "grok"} \subseteq DOMAIN result.analyses
           step == StageStep("o4mini", result.analyses, ready, outcome)
       IN  /\ calls' = IF ready
                       THEN Append(calls, [step |-> "evaluation", subject |-> i,
                                           failed |-> outcome.kind # "ok",
                                           patient |-> result.patient,
                                           gemini |-> result.analyses["gemini"],
                                           grok |-> result.analyses["grok"]])
                       ELSE calls
           /\ IF step.raised
              THEN pc' = "raised" /\ UNCHANGED result
              ELSE /\ result' = [result EXCEPT !.analyses = step.analyses]
                   /\ pc' = "matching"
  /\ UNCHANGED <<doctors_database, results, patients, i, base, web_vars, match_vars>>

\* lines 147-198
Matching ==
  /\ pc = "matching"
  /\ \E step \in {MatchStep(doctors_database, result)} :
       /\ calls' = IF step.called
                   THEN Append(calls, [step |-> "matching", subject |-> i,
                                       failed |-> step.failed,
                                       args |-> MatchArgs(result.patient,
                                                          result.analyses)])
                   ELSE calls
       /\ IF step.raised
          THEN pc' = "raised" /\ UNCHANGED result
          ELSE result' = step.result /\ pc' = "returned"
  /\ UNCHANGED <<doctors_database, results, patients, i, base, web_vars, match_vars>>

\* lines 255-256, then the next iteration
AppendResult ==
  /\ pc = "returned"
  /\ results' = Append(results, result)
  /\ EnterLoop(patients, i + 1)
  /\ UNCHANGED <<doctors_database, patients, calls, base, web_vars, match_vars>>

\* lines 261-309: reports and notifications complete
ReportsDone ==
  /\ pc = "reports"
  /\ pc' = "done"
  /\ UNCHANGED <<doctors_database, results, patients, i, result, calls, base,
               web_vars, match_vars>>

\* lines 261-309: a report or notification service raises
ReportsFail ==
  /\ pc = "reports"
  /\ pc' = "raised"
  /\ UNCHANGED <<doctors_database, results, patients, i, result, calls, base,
               web_vars, match_vars>>

Next ==
  \/ \E n \in 0..MaxPatients : RunStart(n)
  \/ RunLoadFails
  \/ Mapping
  \/ Urgency
  \/ Evaluation
  \/ Matching
  \/ AppendResult
  \/ ReportsDone
  \/ ReportsFail

Spec == Init /\ [][Next]_vars

\* ------------------------------------------------------------------------
\* The web front end (src/app.py).  start_triage runs on a server thread per
\* request (app.run(threaded=True)); every accepted request starts one
\* background thread running run_triage_background.  A thread can be
\* preempted between any two statements: the actions cut the code where it
\* blocks (request parsing, the model calls, the report services) and
\* between the except and the finally clause of the run.
\* ------------------------------------------------------------------------
\* stream_update, lines 45-53: the update put on the queue.  run tells which
\* background thread produced it (in the program: the message text); the
\* timestamp is left out.
Update(r, type, tag, k) == [run |-> r, type |-> type, tag |-> tag, subject |-> k]

MissingPatientFile == 0 - 1

\* variant of StartRejected: the refused request has reset the status and
\* the queue before it answers
StartRejected_Resets(r) ==
  /\ handler[r] = "new"
  /\ processing_status.is_running
  /\ handler' = [handler EXCEPT ![r] = "rejected"]
  /\ processing_status' =
       [is_running |-> TRUE, current_patient |-> 0, total_patients |-> 0,
        progress |-> 0, current_step |-> "starting", results |-> << >>]
  /\ update_queue' = << >>
  /\ discarded' = discarded \cup {update_queue[n] : n \in 1..Len(update_queue)}
  /\ UNCHANGED <<cli_vars, match_vars, delivered, triage_instance, thread>>

\* lines 297-298: the flag is set, the request is refused
StartRejected(r) ==
  /\ handler[r] = "new"
  /\ processing_status.is_running
  /\ handler' = [handler EXCEPT ![r] = "rejected"]
  /\ UNCHANGED <<cli_vars, match_vars, delivered, discarded, processing_status, update_queue, triage_instance,
                 thread>>

\* line 297: the flag is clear, the handler goes on
StartPassed(r) ==
  /\ handler[r] = "new"
  /\ ~processing_status.is_running
  /\ handler' = [handler EXCEPT ![r] = "passed"]
  /\ UNCHANGED <<cli_vars, match_vars, delivered, discarded, processing_status, update_queue, triage_instance,
                 thread>>

\* lines 300-315: a fresh status dict with the flag set, the queue emptied
StartReset(r) ==
  /\ handler[r] = "passed"
  /\ processing_status' =
       [is_running |-> TRUE, current_patient |-> 0, total_patients |-> 0,
        progress |-> 0, current_step |-> "starting", results |-> << >>]
  /\ update_queue' = << >>
  /\ discarded' = discarded \cup {update_queue[n] : n \in 1..Len(update_queue)}
  /\ handler' = [handler EXCEPT ![r] = "reset"]
  /\ UNCHANGED <<cli_vars, match_vars, delivered, triage_instance, thread>>

\* lines 317-326: the body is parsed and the background thread started on
\* the requested patient file
StartLaunch(r, file) ==
  /\ handler[r] = "reset"
  /\ handler' = [handler EXCEPT ![r] = "accepted"]
  /\ thread' = [thread EXCEPT ![r] = [NoThread EXCEPT !.pc = "begin",
                                                      !.file = file]]
  /\ UNCHANGED <<cli_vars, match_vars, delivered, discarded, processing_status, update_queue, triage_instance>>

\* lines 318-319: request.get_json() raises on a malformed body, data.get
\* raises on a JSON body that is not an object; the handler ends with an
\* error response and starts no thread
StartHandlerFails(r) ==
  /\ handler[r] = "reset"
  /\ handler' = [handler EXCEPT ![r] = "failed"]
  /\ UNCHANGED <<cli_vars, match_vars, delivered, discarded, processing_status, update_queue, triage_instance,
                 thread>>

\* lines 72-101, the patient file loads
RunBegin(r) ==
  /\ thread[r].pc = "begin"
  /\ thread[r].file # MissingPatientFile
  /\ LET list == PatientFile(thread[r].file)
     IN  /\ processing_status' =
               [processing_status EXCEPT !.is_running = TRUE,
                                         !.current_step = "loading_patients",
                                         !.total_patients = Len(list)]
         /\ thread' = [thread EXCEPT ![r].pc = "loop", ![r].patients = list,
                                     ![r].i = 0]
  /\ triage_instance' = [owner |-> r, results |-> << >>]
  /\ update_queue' = update_queue \o
       << Update(r, "info", "initializing", 0),
          Update(r, "success", "initialized", 0),
          Update(r, "info", "loading", 0),
          Update(r, "success", "loaded", 0) >>
  /\ UNCHANGED <<cli_vars, match_vars, delivered, discarded, handler>>

\* lines 72-97, load_patients raises (no such file, invalid JSON)
RunBeginLoadFails(r) ==
  /\ thread[r].pc = "begin"
  /\ thread[r].file = MissingPatientFile
  /\ processing_status' =
       [processing_status EXCEPT !.is_running = TRUE,
                                 !.current_step = "loading_patients"]
  /\ thread' = [thread EXCEPT ![r].pc = "except", ![r].cause = "load"]
  /\ triage_instance' = [owner |-> r, results |-> << >>]
  /\ update_queue' = update_queue \o
       << Update(r, "info", "initializing", 0),
          Update(r, "success", "initialized", 0),
          Update(r, "info", "loading", 0) >>
  /\ UNCHANGED <<cli_vars, match_vars, delivered, discarded, handler>>

\* variant of PatientStart: current_patient counts the subjects from 0
PatientStart_FromZero(r) ==
  /\ thread[r].pc = "loop"
  /\ thread[r].i < Len(thread[r].patients)
  /\ LET k == thread[r].i + 1
     IN  /\ processing_status' =
               [processing_status EXCEPT
                  !.current_patient = k - 1,
                  !.current_step = "processing_patient",
                  !.progress = (k * 100) \div Len(thread[r].patients)]
         /\ thread' = [thread EXCEPT ![r].pc = "pipeline", ![r].i = k]
         /\ update_queue' = update_queue \o
              << Update(r, "info", "patient", k),
                 Update(r, "info", "gemini", k) >>
  /\ UNCHANGED <<cli_vars, match_vars, delivered, discarded, triage_instance, handler>>

\* lines 104-124: the loop takes the next patient and announces it
PatientStart(r) ==
  /\ thread[r].pc = "loop"
  /\ thread[r].i < Len(thread[r].patients)
  /\ LET k == thread[r].i + 1
     IN  /\ processing_status' =
               [processing_status EXCEPT
                  !.current_patient = k,
                  !.current_step = "processing_patient",
                  !.progress = (k * 100) \div Len(thread[r].patients)]
         /\ thread' = [thread EXCEPT ![r].pc = "pipeline", ![r].i = k]
         /\ update_queue' = update_queue \o
              << Update(r, "info", "patient", k),
                 Update(r, "info", "gemini", k) >>
  /\ UNCHANGED <<cli_vars, match_vars, delivered, discarded, triage_instance, handler>>

\* variant of WebPipeline: the matcher is asked for the specialty of the
\* mapping stage first
WebPipeline_MappingFirst(db, patient, g, u, o) ==
  IF g.kind # "ok" \/ u.kind # "ok" \/ o.kind # "ok"
  THEN [cause |-> "stage", tags |-> << >>, result |-> NoResult]
  ELSE LET analyses == [gemini |-> g.val, grok |-> u.val, o4mini |-> o.val]
           out == CallMatcher(db, MatchArgs_MappingFirst(patient, analyses))
       IN  IF out.raised
           THEN [cause |-> "match", tags |-> << >>, result |-> NoResult]
           ELSE [cause |-> "",
                 tags |-> <<"gemini_done", "grok", "grok_done", "o4mini",
                            "o4mini_done", "matching", "matched", "completed">>,
                 result |-> [patient |-> patient, analyses |-> analyses,
                             matched_doctor |-> out.value]]

\* lines 127-193 for one patient: the three stage calls and the matcher call
\* in sequence, none inside a try.  cause says what raised ("" when nothing
\* did), tags lists the updates streamed on the way.
WebPipeline(db, patient, g, u, o) ==
  IF g.kind # "ok"
  THEN [cause |-> "stage", tags |-> << >>, result |-> NoResult]
  ELSE IF u.kind # "ok"
  THEN [cause |-> "stage", tags |-> <<"gemini_done", "grok">>,
        result |-> NoResult]
  ELSE IF o.kind # "ok"
  THEN [cause |-> "stage",
        tags |-> <<"gemini_done", "grok", "grok_done", "o4mini">>,
        result |-> NoResult]
  ELSE LET analyses == [gemini |-> g.val, grok |-> u.val, o4mini |-> o.val]
           out == CallMatcher(db, MatchArgs(patient, analyses))
       IN  IF out.raised
           THEN [cause |-> "match",
                 tags |-> <<"gemini_done", "grok", "grok_done", "o4mini",
                            "o4mini_done", "matching">>,
                 result |-> NoResult]
           ELSE [cause |-> "",
                 tags |-> <<"gemini_done", "grok", "grok_done", "o4mini",
                            "o4mini_done", "matching", "matched", "completed">>,
                 result |-> [patient |-> patient, analyses |-> analyses,
                             matched_doctor |-> out.value]]

\* the type stream_update is given for each tag
TagType(tag) ==
  IF tag \in {"grok", "o4mini", "matching"} THEN "info" ELSE "success"

\* lines 127-207: the pipeline of the current patient, the stages answering
\* one of the outcomes in stages; on success the record is appended to the
\* results of the global orchestrator and of the global status dict
PatientPipeline(r, stages) ==
  /\ thread[r].pc = "pipeline"
  /\ \E g \in stages.gemini, u \in stages.grok, o \in stages.o4mini :
       \E out \in {WebPipeline(doctors_database,
                                thread[r].patients[thread[r].i], g, u, o)} :
           /\ update_queue' = update_queue \o
                [t \in 1..Len(out.tags) |->
                   Update(r, TagType(out.tags[t]), out.tags[t], thread[r].i)]
           /\ IF out.cause = ""
              THEN /\ triage_instance' =
                        [triage_instance EXCEPT
                           !.results = Append(@, out.result)]
                   /\ processing_status' =
                        [processing_status EXCEPT
                           !.results = Append(@, out.result)]
                   /\ thread' = [thread EXCEPT ![r].pc = "loop"]
              ELSE /\ thread' = [thread EXCEPT ![r].pc = "except",
                                               ![r].cause = out.cause]
                   /\ UNCHANGED <<triage_instance, processing_status>>
  /\ UNCHANGED <<cli_vars, match_vars, delivered, discarded, handler>>

\* lines 209-274: reports, sheet, calendar, PDFs and e-mails all succeed
WebReportsDone(r) ==
  /\ thread[r].pc = "loop"
  /\ thread[r].i = Len(thread[r].patients)
  /\ processing_status' =
       [processing_status EXCEPT !.current_step = "complete",
                                 !.progress = 100]
  /\ update_queue' = update_queue \o
       << Update(r, "info", "reports", 0),
          Update(r, "info", "json", 0),
          Update(r, "success", "json_saved", 0),
          Update(r, "info", "sheet", 0),
          Update(r, "success", "sheet_created", 0),
          Update(r, "info", "calendar", 0),
          Update(r, "success", "scheduled", 0),
          Update(r, "info", "pdf", 0),
          Update(r, "success", "pdf_generated", 0),
          Update(r, "info", "email", 0),
          Update(r, "success", "email_sent", 0),
          Update(r, "success", "finished", 0) >>
  /\ thread' = [thread EXCEPT ![r].pc = "finally"]
  /\ UNCHANGED <<cli_vars, match_vars, delivered, discarded, triage_instance, handler>>

\* lines 209-219: writing the JSON report raises
WebReportsFail(r) ==
  /\ thread[r].pc = "loop"
  /\ thread[r].i = Len(thread[r].patients)
  /\ processing_status' =
       [processing_status EXCEPT !.current_step = "generating_reports"]
  /\ update_queue' = update_queue \o
       << Update(r, "info", "reports", 0), Update(r, "info", "json", 0) >>
  /\ thread' = [thread EXCEPT ![r].pc = "except", ![r].cause = "reports"]
  /\ UNCHANGED <<cli_vars, match_vars, delivered, discarded, triage_instance, handler>>

\* lines 276-280
RunExcept(r) ==
  /\ thread[r].pc = "except"
  /\ processing_status' = [processing_status EXCEPT !.current_step = "error"]
  /\ update_queue' = update_queue \o
       << Update(r, "error", "error", 0), Update(r, "error", "traceback", 0) >>
  /\ thread' = [thread EXCEPT ![r].pc = "finally"]
  /\ UNCHANGED <<cli_vars, match_vars, delivered, discarded, triage_instance, handler>>

\* lines 282-283
RunFinally(r) ==
  /\ thread[r].pc = "finally"
  /\ processing_status' = [processing_status EXCEPT !.is_running = FALSE]
  /\ thread' = [thread EXCEPT ![r].pc = "dead"]
  /\ UNCHANGED <<cli_vars, match_vars, delivered, discarded, update_queue, triage_instance, handler>>

\* the rest of start_triage once the check of line 297 has passed; the
\* body names a patient file of at most n entries or one that does not exist
HandlerStep(r, n) ==
  \/ StartReset(r)
  \/ \E file \in {MissingPatientFile} \cup (0..n) : StartLaunch(r, file)
  \/ StartHandlerFails(r)

\* run_triage_background on the thread of request r
ThreadStep(r, stages) ==
  \/ RunBegin(r)
  \/ RunBeginLoadFails(r)
  \/ PatientStart(r)
  \/ PatientPipeline(r, stages)
  \/ WebReportsDone(r)
  \/ WebReportsFail(r)
  \/ RunExcept(r)
  \/ RunFinally(r)

\* every answer the stages can give
AllOutcomes ==
  [gemini |-> MappingOutcomes, grok |-> UrgencyOutcomes,
   o4mini |-> EvaluationOutcomes]

\* the stages either raise or answer in full
PlainOutcomes ==
  [gemini |-> {Raises, Returns(GeminiFull)},
   grok |-> {Raises, Returns(GrokFull)},
   o4mini |-> {Raises, Returns(O4Full)}]

\* One start request and its background run, alone on the server.
NextWebRun ==
  \/ StartPassed(1)
  \/ HandlerStep(1, MaxWebPatients)
  \/ ThreadStep(1, AllOutcomes)

SpecWebRun == Init /\ [][NextWebRun]_vars

\* MaxRequests start requests handled concurrently (app.run(threaded=True)),
\* each on a patient file of at most MaxRacePatients entries.
NextWeb ==
  \E r \in Requests :
    \/ StartRejected(r)
    \/ StartPassed(r)
    \/ HandlerStep(r, MaxRacePatients)
    \/ ThreadStep(r, PlainOutcomes)

SpecWeb == Init /\ [][NextWeb]_vars

\* no start handler stands between its check of the flag and its response
NoHandlerBusy == \A q \in Requests : handler[q] \notin {"passed", "reset"}

\* MaxRequests start requests that reach the server one at a time: a
\* handler begins only when no other handler is under way.  The background
\* runs go on beside the handlers.
NextWebSerial ==
  \E r \in Requests :
    \/ NoHandlerBusy /\ StartRejected(r)
    \/ NoHandlerBusy /\ StartPassed(r)
    \/ HandlerStep(r, MaxRacePatients)
    \/ ThreadStep(r, PlainOutcomes)

SpecWebSerial == Init /\ [][NextWebSerial]_vars

\* ------------------------------------------------------------------------
\* The /stream endpoint (app.py lines 335-351): every connected client runs
\* its own event_stream generator on the one global update_queue.
\* ------------------------------------------------------------------------
\* line 346: the heartbeat item, in the shape of the updates (it belongs to
\* no run and to no subject)
Heartbeat == Update(0, "heartbeat", "heartbeat", 0)

\* the heartbeats among the items a consumer has yielded
Heartbeats(items) == Len(SelectSeq(items, LAMBDA u : u = Heartbeat))

\* the heartbeats consumers 1..c have yielded together
RECURSIVE AllHeartbeats(_)
AllHeartbeats(c) ==
  IF c = 0 THEN 0 ELSE Heartbeats(delivered[c]) + AllHeartbeats(c - 1)

\* the events among the items a consumer has yielded
Events(items) == SelectSeq(items, LAMBDA u : u # Heartbeat)

\* variant of WaitTimesOut: the wait may end empty-handed whatever the queue
\* holds
WaitTimesOut_Anytime(q) == TRUE

\* line 342, update_queue.get(timeout=1): Queue.get raises queue.Empty only
\* when the queue holds no item at the end of the wait
WaitTimesOut(q) == q = << >>

\* variant of StreamGet: get returns the newest item of the queue
StreamGet_Newest(c) ==
  /\ update_queue # << >>
  /\ delivered' =
       [delivered EXCEPT ![c] = Append(@, update_queue[Len(update_queue)])]
  /\ update_queue' = SubSeq(update_queue, 1, Len(update_queue) - 1)
  /\ UNCHANGED <<cli_vars, match_vars, processing_status, triage_instance,
                 handler, thread, discarded>>

\* variant of StreamGet: the item the consumer yields stays in the queue
StreamGet_Peek(c) ==
  /\ update_queue # << >>
  /\ delivered' = [delivered EXCEPT ![c] = Append(@, Head(update_queue))]
  /\ UNCHANGED <<cli_vars, match_vars, processing_status, update_queue,
                 triage_instance, handler, thread, discarded>>

\* lines 340-343: get returns the oldest item, which leaves the queue, and
\* the consumer yields it
StreamGet(c) ==
  /\ update_queue # << >>
  /\ delivered' = [delivered EXCEPT ![c] = Append(@, Head(update_queue))]
  /\ update_queue' = Tail(update_queue)
  /\ UNCHANGED <<cli_vars, match_vars, processing_status, triage_instance,
                 handler, thread, discarded>>

\* StreamGet for a consumer that has yielded fewer than MaxDelivered events
StreamEvent(c) ==
  /\ Len(Events(delivered[c])) < MaxDelivered
  /\ StreamGet(c)

\* lines 344-346: the wait ends with queue.Empty and the consumer yields a
\* heartbeat
StreamHeartbeat(c) ==
  /\ WaitTimesOut(update_queue)
  /\ AllHeartbeats(MaxConsumers) < MaxHeartbeats
  /\ delivered' = [delivered EXCEPT ![c] = Append(@, Heartbeat)]
  /\ UNCHANGED <<cli_vars, match_vars, processing_status, update_queue,
                 triage_instance, handler, thread, discarded>>

\* One start request on a patient file that is empty or does not exist, and
\* its background run, with MaxConsumers clients connected to /stream from
\* the beginning.
NextStream ==
  \/ StartPassed(1)
  \/ HandlerStep(1, 0)
  \/ RunBegin(1)
  \/ RunBeginLoadFails(1)
  \/ WebReportsDone(1)
  \/ WebReportsFail(1)
  \/ RunExcept(1)
  \/ RunFinally(1)
  \/ \E c \in Consumers : StreamEvent(c) \/ StreamHeartbeat(c)

SpecStream == Init /\ [][NextStream]_vars

\* One start request on a patient file of at most MaxWebPatients entries
\* and its background run, with one client connected to /stream from the
\* beginning.
NextStreamRun ==
  \/ StartPassed(1)
  \/ HandlerStep(1, MaxWebPatients)
  \/ ThreadStep(1, PlainOutcomes)
  \/ StreamGet(1)
  \/ StreamHeartbeat(1)

SpecStreamRun == Init /\ [][NextStreamRun]_vars

\* the start requests are numbered in the order they reach the server
InTurn(r) == \A q \in 1..(r - 1) : handler[q] # "new"

\* Two start requests that reach the server one after the other, each
\* naming a patient file that does not exist, and their background runs,
\* with MaxConsumers clients connected to /stream from the beginning whose
\* waits on the queue do not time out.
NextStreamSerial ==
  \/ \E r \in {1, 2} :
       \/ NoHandlerBusy /\ InTurn(r) /\ StartRejected(r)
       \/ NoHandlerBusy /\ InTurn(r) /\ StartPassed(r)
       \/ StartReset(r)
       \/ StartLaunch(r, MissingPatientFile)
       \/ RunBeginLoadFails(r)
       \/ RunExcept(r)
       \/ RunFinally(r)
  \/ \E c \in Consumers : StreamEvent(c)

SpecStreamSerial == Init /\ [][NextStreamSerial]_vars

\* ------------------------------------------------------------------------
\* The matcher called on its own: a DoctorMatcher is built on one of the two
\* data directories and find_best_doctor is called once with arguments from
\* the bounded domains below.
\* ------------------------------------------------------------------------
Specialties ==
  {S_Cardiology, S_Pediatrics, S_Pediatric, S_CardiologyPediatrics, S_ENT,
   S_Orthopedics, S_Gastroenterology, NoneStr}

Slots == {"09:00", "14:00"}

Languages == {"English", "Hindi"}

UrgencyScores == {30, 50, 69, 70, 80}

Ages == {NoneInt, 7, 70}

Hints == {NoneStr, S_Interventional, S_Stent}

Conditions == {<< >>, <<S_Diabetes, S_Interventional>>}

Queries ==
  [specialty : Specialties, preferred_slot : Slots,
   patient_language : Languages, urgency_score : UrgencyScores,
   patient_age : Ages, sub_specialization_hint : Hints,
   patient_conditions : Conditions]

\* DoctorMatcher.__init__ on the data directory files
Construct(files) ==
  /\ query = NoQuery
  /\ doctors_database # load_doctor_database(files)
  /\ doctors_database' = load_doctor_database(files)
  /\ UNCHANGED <<results, pc, patients, i, result, calls, base, web_vars,
                 match_vars>>

\* variant of DatabaseAfterCall: the score, the details and the tier are
\* written onto the doctor of the catalog itself
DatabaseAfterCall_WritesOriginal(db, a) ==
  LET out == CallMatcher(db, a)
      Mark(doctors) ==
        [n \in 1..Len(doctors) |->
           IF doctors[n].name = out.value.name THEN out.value ELSE doctors[n]]
      Dept(d) == IF "doctors" \in DOMAIN d
                 THEN [d EXCEPT !.doctors = Mark(d.doctors)] ELSE d
  IN  IF out.raised \/ out.value = None THEN db
      ELSE [k \in 1..Len(db) |->
              [db[k] EXCEPT !.department = Dept(db[k].department)]]

\* variant of DatabaseAfterCall: the chosen doctor leaves the catalog
DatabaseAfterCall_DropsWinner(db, a) ==
  LET out == CallMatcher(db, a)
      Keep(d) == d.name # out.value.name
      Dept(d) == IF "doctors" \in DOMAIN d
                 THEN [d EXCEPT !.doctors = SelectSeq(d.doctors, Keep)] ELSE d
  IN  IF out.raised \/ out.value = None THEN db
      ELSE [k \in 1..Len(db) |->
              [db[k] EXCEPT !.department = Dept(db[k].department)]]

\* self.doctors_database after one call of find_best_doctor: the method
\* only reads it; line 229 copies the doctor and lines 234-241 write the
\* score, the details and the tier onto the copy
DatabaseAfterCall(db, a) == db

\* one call of find_best_doctor with the arguments q
FindBestDoctor(q) ==
  /\ query = NoQuery
  /\ query' = q
  /\ answer' = [done |-> TRUE] @@ CallMatcher(doctors_database, q)
  /\ doctors_database' = DatabaseAfterCall(doctors_database, q)
  /\ UNCHANGED <<results, pc, patients, i, result, calls, base, web_vars,
                 earlier>>

NextMatch ==
  \/ \E files \in {DoctorFiles, ClinicFiles} : Construct(files)
  \/ \E q \in Queries : FindBestDoctor(q)

SpecMatch == Init /\ [][NextMatch]_vars

\* The matcher on small catalogs: a cardiology department with the single
\* doctor "Solo", or with the two doctors "With" and "Without", alike but
\* for the rating and for the slots (With has the slot 09:00, Without has
\* another slot or none), in either order.
NoneLanguage == "None"  \* patient_language = None (languages are whole words)

ScenarioFiles ==
  LET Ratings == {0, 1000, 2500, 4000, 4500, 5000}
      Dr(name, slots, rating) ==
        [name |-> name, slots |-> slots, languages_spoken |-> <<"English">>,
         patient_rating |-> rating, experience_years |-> 10]
      Files(doctors) ==
        << JsonFile([departments |-> << [specialty |-> S_Cardiology,
                                         doctors |-> doctors] >>]),
           MissingFile, MissingFile, MissingFile, MissingFile, MissingFile,
           MissingFile, MissingFile, MissingFile, MissingFile, MissingFile >>
      Pairs == { << Dr("With", <<"09:00">>, r1), Dr("Without", sl, r2) >> :
                   r1 \in Ratings, r2 \in Ratings,
                   sl \in {<<"14:00">>, << >>} }
  IN  {Files(<< Dr("Solo", <<"09:00">>, 4500) >>)}
        \cup {Files(pr) : pr \in Pairs}
        \cup {Files(<<pr[2], pr[1]>>) : pr \in Pairs}

ScenarioQueries ==
  [specialty : {S_Cardiology}, preferred_slot : {"09:00"},
   patient_language : {NoneLanguage, "English"}, urgency_score : {30, 50, 69},
   patient_age : {NoneInt}, sub_specialization_hint : {NoneStr},
   patient_conditions : {<< >>}]

NextScenario ==
  \/ \E files \in ScenarioFiles : Construct(files)
  \/ \E q \in ScenarioQueries : FindBestDoctor(q)

SpecScenario == Init /\ [][NextScenario]_vars

\* Several calls on one DoctorMatcher: after the first call, further calls
\* repeat the arguments of a call already made or take one of a few other
\* arguments.
OtherQueries ==
  { [specialty |-> S_Cardiology, preferred_slot |-> "09:00",
     patient_language |-> "English", urgency_score |-> 80,
     patient_age |-> 70, sub_specialization_hint |-> S_Stent,
     patient_conditions |-> << >>],
    [specialty |-> S_Pediatric, preferred_slot |-> "14:00",
     patient_language |-> "Hindi", urgency_score |-> 30,
     patient_age |-> 7, sub_specialization_hint |-> NoneStr,
     patient_conditions |-> << >>] }

\* the arguments of the first call
FirstQueries ==
  [specialty : Specialties, preferred_slot : Slots,
   patient_language : Languages, urgency_score : {30, 70},
   patient_age : Ages, sub_specialization_hint : {NoneStr},
   patient_conditions : {<< >>}]

\* the arguments of the calls made so far
QueriesMade == {query} \cup {earlier[n].query : n \in 1..Len(earlier)}

\* a further call of find_best_doctor on the same object
FindBestDoctorAgain(q) ==
  /\ answer.done
  /\ Len(earlier) + 1 < MaxCalls
  /\ earlier' = Append(earlier, [query |-> query, answer |-> answer])
  /\ query' = q
  /\ answer' = [done |-> TRUE] @@ CallMatcher(doctors_database, q)
  /\ doctors_database' = DatabaseAfterCall(doctors_database, q)
  /\ UNCHANGED <<results, pc, patients, i, result, calls, base, web_vars>>

NextMatchRepeat ==
  \/ \E files \in {DoctorFiles, ClinicFiles} : Construct(files)
  \/ \E q \in FirstQueries : FindBestDoctor(q)
  \/ \E q \in QueriesMade \cup OtherQueries : FindBestDoctorAgain(q)

SpecMatchRepeat == Init /\ [][NextMatchRepeat]_vars

\* ------------------------------------------------------------------------
\* AdvancedMatchingFeatures (src/src/services/advanced_matcher.py)
\* ------------------------------------------------------------------------
\* lines 22-146: the dict and its inner dicts in insertion order
SUBSPECIALTY_KEYWORDS ==
  <<
   [key |-> <<"C","a","r","d","i","o","l","o","g","y">>,
    subs |-> <<
      [name |-> <<"i","n","t","e","r","v","e","n","t","i","o","n","a","l">>,
       keywords |->
         << <<"a","n","g","i","o","p","l","a","s","t","y">>,
            <<"s","t","e","n","t">>,
            <<"c","a","t","h","e","t","e","r","i","z","a","t","i","o","n">>,
            <<"c","o","r","o","n","a","r","y">>,
            <<"h","e","a","r","t"," ","a","t","t","a","c","k">>,
            <<"m","y","o","c","a","r","d","i","a","l"," ","i","n","f","a","r","c","t","i","o","n">>,
            <<"a","c","u","t","e"," ","c","o","r","o","n","a","r","y">> >>],
      [name |-> <<"e","l","e","c","t","r","o","p","h","y","s","i","o","l","o","g","y">>,
       keywords |->
         << <<"a","r","r","h","y","t","h","m","i","a">>,
            <<"p","a","l","p","i","t","a","t","i","o","n","s">>,
            <<"i","r","r","e","g","u","l","a","r"," ","h","e","a","r","t","b","e","a","t">>,
            <<"a","t","r","i","a","l"," ","f","i","b","r","i","l","l","a","t","i","o","n">>,
            <<"a","f","i","b">>, <<"f","l","u","t","t","e","r">>,
            <<"t","a","c","h","y","c","a","r","d","i","a">>,
            <<"b","r","a","d","y","c","a","r","d","i","a">>,
            <<"h","e","a","r","t"," ","r","h","y","t","h","m">> >>],
      [name |-> <<"h","e","a","r","t","_","f","a","i","l","u","r","e">>,
       keywords |->
         << <<"s","h","o","r","t","n","e","s","s"," ","o","f"," ","b","r","e","a","t","h">>,
            <<"s","w","e","l","l","i","n","g">>, <<"e","d","e","m","a">>,
            <<"f","a","t","i","g","u","e">>,
            <<"w","e","a","k"," ","h","e","a","r","t">>,
            <<"h","e","a","r","t"," ","f","a","i","l","u","r","e">>,
            <<"c","a","r","d","i","o","m","y","o","p","a","t","h","y">> >>],
      [name |-> <<"c","o","n","g","e","n","i","t","a","l">>,
       keywords |->
         << <<"b","i","r","t","h"," ","d","e","f","e","c","t">>,
            <<"c","o","n","g","e","n","i","t","a","l">>,
            <<"h","o","l","e"," ","i","n"," ","h","e","a","r","t">>,
            <<"m","u","r","m","u","r">> >>] >>],
   [key |-> <<"G","a","s","t","r","o","e","n","t","e","r","o","l","o","g","y">>,
    subs |-> <<
      [name |-> <<"l","i","v","e","r">>,
       keywords |->
         << <<"j","a","u","n","d","i","c","e">>,
            <<"h","e","p","a","t","i","t","i","s">>,
            <<"c","i","r","r","h","o","s","i","s">>, <<"l","i","v","e","r">>,
            <<"y","e","l","l","o","w"," ","s","k","i","n">>,
            <<"a","s","c","i","t","e","s">>,
            <<"l","i","v","e","r"," ","d","i","s","e","a","s","e">> >>],
      [name |-> <<"i","n","f","l","a","m","m","a","t","o","r","y","_","b","o","w","e","l">>,
       keywords |->
         << <<"c","r","o","h","n">>, <<"c","o","l","i","t","i","s">>,
            <<"i","n","f","l","a","m","m","a","t","o","r","y"," ","b","o","w","e","l">>,
            <<"i","b","d">>,
            <<"b","l","o","o","d","y"," ","s","t","o","o","l">>,
            <<"c","h","r","o","n","i","c"," ","d","i","a","r","r","h","e","a">> >>],
      [name |-> <<"p","a","n","c","r","e","a","s">>,
       keywords |->
         << <<"p","a","n","c","r","e","a","t","i","t","i","s">>,
            <<"p","a","n","c","r","e","a","s">>,
            <<"d","i","a","b","e","t","e","s">> >>],
      [name |-> <<"a","c","i","d","_","r","e","f","l","u","x">>,
       keywords |->
         << <<"g","e","r","d">>,
            <<"a","c","i","d"," ","r","e","f","l","u","x">>,
            <<"h","e","a","r","t","b","u","r","n">>,
            <<"e","s","o","p","h","a","g","u","s">> >>] >>],
   [key |-> <<"N","e","u","r","o","l","o","g","y">>,
    subs |-> <<
      [name |-> <<"s","t","r","o","k","e">>,
       keywords |->
         << <<"s","t","r","o","k","e">>,
            <<"p","a","r","a","l","y","s","i","s">>,
            <<"f","a","c","i","a","l"," ","d","r","o","o","p","i","n","g">>,
            <<"s","l","u","r","r","e","d"," ","s","p","e","e","c","h">>,
            <<"s","u","d","d","e","n"," ","w","e","a","k","n","e","s","s">>,
            <<"t","i","a">>,
            <<"t","r","a","n","s","i","e","n","t"," ","i","s","c","h","e","m","i","c">> >>],
      [name |-> <<"e","p","i","l","e","p","s","y">>,
       keywords |->
         << <<"s","e","i","z","u","r","e">>,
            <<"e","p","i","l","e","p","s","y">>,
            <<"c","o","n","v","u","l","s","i","o","n">>, <<"f","i","t","s">> >>],
      [name |-> <<"m","i","g","r","a","i","n","e">>,
       keywords |->
         << <<"m","i","g","r","a","i","n","e">>,
            <<"s","e","v","e","r","e"," ","h","e","a","d","a","c","h","e">>,
            <<"v","i","s","u","a","l"," ","a","u","r","a">> >>],
      [name |-> <<"m","o","v","e","m","e","n","t","_","d","i","s","o","r","d","e","r","s">>,
       keywords |->
         << <<"p","a","r","k","i","n","s","o","n">>,
            <<"t","r","e","m","o","r">>,
            <<"m","o","v","e","m","e","n","t"," ","d","i","s","o","r","d","e","r">>,
            <<"d","y","s","t","o","n","i","a">> >>],
      [name |-> <<"d","e","m","e","n","t","i","a">>,
       keywords |->
         << <<"a","l","z","h","e","i","m","e","r">>,
            <<"d","e","m","e","n","t","i","a">>,
            <<"m","e","m","o","r","y"," ","l","o","s","s">>,
            <<"c","o","g","n","i","t","i","v","e"," ","d","e","c","l","i","n","e">> >>] >>],
   [key |-> <<"O","r","t","h","o","p","e","d","i","c","s">>,
    subs |-> <<
      [name |-> <<"s","p","o","r","t","s">>,
       keywords |->
         << <<"s","p","o","r","t","s"," ","i","n","j","u","r","y">>,
            <<"l","i","g","a","m","e","n","t"," ","t","e","a","r">>,
            <<"a","c","l">>, <<"m","c","l">>,
            <<"m","e","n","i","s","c","u","s">>,
            <<"a","t","h","l","e","t","i","c"," ","i","n","j","u","r","y">> >>],
      [name |-> <<"s","p","i","n","e">>,
       keywords |->
         << <<"b","a","c","k"," ","p","a","i","n">>, <<"s","p","i","n","e">>,
            <<"d","i","s","c">>, <<"h","e","r","n","i","a","t","e","d">>,
            <<"s","c","i","a","t","i","c","a">>, <<"s","p","i","n","a","l">>,
            <<"v","e","r","t","e","b","r","a">> >>],
      [name |-> <<"j","o","i","n","t","_","r","e","p","l","a","c","e","m","e","n","t">>,
       keywords |->
         << <<"k","n","e","e"," ","r","e","p","l","a","c","e","m","e","n","t">>,
            <<"h","i","p"," ","r","e","p","l","a","c","e","m","e","n","t">>,
            <<"a","r","t","h","r","i","t","i","s">>,
            <<"j","o","i","n","t"," ","p","a","i","n">>,
            <<"o","s","t","e","o","a","r","t","h","r","i","t","i","s">> >>],
      [name |-> <<"t","r","a","u","m","a">>,
       keywords |->
         << <<"f","r","a","c","t","u","r","e">>,
            <<"b","r","o","k","e","n"," ","b","o","n","e">>,
            <<"t","r","a","u","m","a">>, <<"i","n","j","u","r","y">> >>] >>],
   [key |-> <<"P","u","l","m","o","n","o","l","o","g","y">>,
    subs |-> <<
      [name |-> <<"a","s","t","h","m","a">>,
       keywords |->
         << <<"a","s","t","h","m","a">>, <<"w","h","e","e","z","i","n","g">>,
            <<"b","r","e","a","t","h","i","n","g"," ","d","i","f","f","i","c","u","l","t","y">>,
            <<"i","n","h","a","l","e","r">> >>],
      [name |-> <<"c","o","p","d">>,
       keywords |->
         << <<"c","o","p","d">>, <<"e","m","p","h","y","s","e","m","a">>,
            <<"c","h","r","o","n","i","c"," ","b","r","o","n","c","h","i","t","i","s">>,
            <<"s","m","o","k","e","r">> >>],
      [name |-> <<"s","l","e","e","p">>,
       keywords |->
         << <<"s","l","e","e","p"," ","a","p","n","e","a">>,
            <<"s","n","o","r","i","n","g">>, <<"c","p","a","p">> >>],
      [name |-> <<"i","n","t","e","r","s","t","i","t","i","a","l">>,
       keywords |->
         << <<"f","i","b","r","o","s","i","s">>,
            <<"i","n","t","e","r","s","t","i","t","i","a","l"," ","l","u","n","g">>,
            <<"p","u","l","m","o","n","a","r","y"," ","f","i","b","r","o","s","i","s">> >>] >>],
   [key |-> <<"P","s","y","c","h","i","a","t","r","y">>,
    subs |-> <<
      [name |-> <<"d","e","p","r","e","s","s","i","o","n">>,
       keywords |->
         << <<"d","e","p","r","e","s","s","i","o","n">>,
            <<"l","o","w"," ","m","o","o","d">>,
            <<"s","a","d","n","e","s","s">>,
            <<"h","o","p","e","l","e","s","s","n","e","s","s">>,
            <<"l","o","s","s"," ","o","f"," ","i","n","t","e","r","e","s","t">>,
            <<"s","u","i","c","i","d","a","l">> >>],
      [name |-> <<"a","n","x","i","e","t","y">>,
       keywords |->
         << <<"a","n","x","i","e","t","y">>, <<"p","a","n","i","c">>,
            <<"w","o","r","r","y">>,
            <<"n","e","r","v","o","u","s","n","e","s","s">>, <<"o","c","d">> >>],
      [name |-> <<"b","i","p","o","l","a","r">>,
       keywords |->
         << <<"b","i","p","o","l","a","r">>, <<"m","a","n","i","c">>,
            <<"m","o","o","d"," ","s","w","i","n","g","s">> >>],
      [name |-> <<"p","s","y","c","h","o","s","i","s">>,
       keywords |->
         << <<"s","c","h","i","z","o","p","h","r","e","n","i","a">>,
            <<"p","s","y","c","h","o","s","i","s">>,
            <<"h","a","l","l","u","c","i","n","a","t","i","o","n">>,
            <<"d","e","l","u","s","i","o","n">> >>] >>],
   [key |-> <<"D","e","r","m","a","t","o","l","o","g","y">>,
    subs |-> <<
      [name |-> <<"a","c","n","e">>,
       keywords |->
         << <<"a","c","n","e">>, <<"p","i","m","p","l","e","s">>,
            <<"b","l","a","c","k","h","e","a","d","s">>,
            <<"b","r","e","a","k","o","u","t">> >>],
      [name |-> <<"p","s","o","r","i","a","s","i","s">>,
       keywords |->
         << <<"p","s","o","r","i","a","s","i","s">>,
            <<"s","c","a","l","y"," ","s","k","i","n">>,
            <<"p","l","a","q","u","e">> >>],
      [name |-> <<"s","k","i","n","_","c","a","n","c","e","r">>,
       keywords |->
         << <<"m","o","l","e">>, <<"m","e","l","a","n","o","m","a">>,
            <<"s","k","i","n"," ","c","a","n","c","e","r">>,
            <<"c","h","a","n","g","i","n","g"," ","s","p","o","t">> >>],
      [name |-> <<"e","c","z","e","m","a">>,
       keywords |->
         << <<"e","c","z","e","m","a">>,
            <<"a","t","o","p","i","c"," ","d","e","r","m","a","t","i","t","i","s">>,
            <<"i","t","c","h","y"," ","r","a","s","h">> >>] >>],
   [key |-> <<"E","N","T">>,
    subs |-> <<
      [name |-> <<"h","e","a","r","i","n","g">>,
       keywords |->
         << <<"h","e","a","r","i","n","g"," ","l","o","s","s">>,
            <<"d","e","a","f">>, <<"t","i","n","n","i","t","u","s">>,
            <<"r","i","n","g","i","n","g"," ","i","n"," ","e","a","r">> >>],
      [name |-> <<"s","i","n","u","s">>,
       keywords |->
         << <<"s","i","n","u","s","i","t","i","s">>, <<"s","i","n","u","s">>,
            <<"n","a","s","a","l"," ","c","o","n","g","e","s","t","i","o","n">> >>],
      [name |-> <<"t","h","r","o","a","t">>,
       keywords |->
         << <<"s","o","r","e"," ","t","h","r","o","a","t">>,
            <<"t","o","n","s","i","l","l","i","t","i","s">>,
            <<"h","o","a","r","s","e","n","e","s","s">>,
            <<"v","o","i","c","e"," ","p","r","o","b","l","e","m">> >>] >>] >>

\* lines 149-153
EMERGENCY_KEYWORDS ==
  << <<"c","h","e","s","t"," ","p","a","i","n">>,
     <<"h","e","a","r","t"," ","a","t","t","a","c","k">>,
     <<"s","t","r","o","k","e">>, <<"s","e","i","z","u","r","e">>,
     <<"s","e","v","e","r","e"," ","b","l","e","e","d","i","n","g">>,
     <<"d","i","f","f","i","c","u","l","t","y"," ","b","r","e","a","t","h","i","n","g">>,
     <<"u","n","c","o","n","s","c","i","o","u","s">>,
     <<"s","e","v","e","r","e"," ","p","a","i","n">>,
     <<"s","u","i","c","i","d","e">>, <<"o","v","e","r","d","o","s","e">>,
     <<"t","r","a","u","m","a">> >>

\* lines 184-187: the keywords of one sub-specialty found in the text
MatchCount(keywords, text_to_analyze) ==
  Cardinality({n \in 1..Len(keywords) :
                 Contains(text_to_analyze, Lower(keywords[n]))})

\* lines 182-189: subspecialty_matches, the sub-specialties with a count
\* above 0, in the order of the table
RECURSIVE SubspecialtyMatches(_, _, _)
SubspecialtyMatches(subs, text_to_analyze, k) ==
  IF k > Len(subs) THEN << >>
  ELSE LET match_count == MatchCount(subs[k].keywords, text_to_analyze)
           rest == SubspecialtyMatches(subs, text_to_analyze, k + 1)
       IN  IF match_count > 0
           THEN <<[subspec |-> subs[k].name, match_count |-> match_count]>>
                  \o rest
           ELSE rest

\* lines 193-196: max(items, key = count) keeps the first of the items
\* with the greatest count
MaxByCount(items) ==
  items[CHOOSE b \in 1..Len(items) :
          /\ \A n \in 1..Len(items) :
               items[n].match_count <= items[b].match_count
          /\ \A n \in 1..(b - 1) :
               items[n].match_count < items[b].match_count]

\* str.replace('_', ' ')
ReplaceUnderscore(s) == [k \in 1..Len(s) |-> IF s[k] = "_" THEN " " ELSE s[k]]

\* lines 155-203; NoneStr when no hint is returned
extract_subspecialty_hints(symptoms, specialty, conditions) ==
  LET specialty_normalized == Title(specialty)
      text_to_analyze == Lower(symptoms \o <<" ">> \o JoinSpace(conditions))
  IN  IF ~\E k \in 1..Len(SUBSPECIALTY_KEYWORDS) :
            SUBSPECIALTY_KEYWORDS[k].key = specialty_normalized
      THEN NoneStr
      ELSE LET subs ==
                 SUBSPECIALTY_KEYWORDS[
                   CHOOSE k \in 1..Len(SUBSPECIALTY_KEYWORDS) :
                     SUBSPECIALTY_KEYWORDS[k].key = specialty_normalized].subs
               subspecialty_matches ==
                 SubspecialtyMatches(subs, text_to_analyze, 1)
           IN  IF subspecialty_matches # << >>
               THEN Title(ReplaceUnderscore(
                            MaxByCount(subspecialty_matches).subspec))
               ELSE NoneStr

\* variant of calculate_condition_severity: 'high' starts above 70
calculate_condition_severity_Above70(symptoms, urgency_score) ==
  LET symptoms_lower == Lower(symptoms)
      has_emergency ==
        \E k \in 1..Len(EMERGENCY_KEYWORDS) :
          Contains(symptoms_lower, EMERGENCY_KEYWORDS[k])
  IN  IF has_emergency \/ urgency_score >= 90 THEN "critical"
      ELSE IF urgency_score > 70 THEN "high"
      ELSE IF urgency_score >= 40 THEN "moderate"
      ELSE "low"

\* lines 205-236
calculate_condition_severity(symptoms, urgency_score) ==
  LET symptoms_lower == Lower(symptoms)
      has_emergency ==
        \E k \in 1..Len(EMERGENCY_KEYWORDS) :
          Contains(symptoms_lower, EMERGENCY_KEYWORDS[k])
  IN  IF has_emergency \/ urgency_score >= 90 THEN "critical"
      ELSE IF urgency_score >= 70 THEN "high"
      ELSE IF urgency_score >= 40 THEN "moderate"
      ELSE "low"

\* The two classifiers called on their own, once, with arguments from the
\* bounded domains below.
Narratives ==
  { <<"s","e","v","e","r","e"," ","c","h","e","s","t"," ","p","a","i","n",
      " ","a","n","d"," ","s","t","e","n","t"," ","n","e","e","d","e","d">>,
    <<"p","a","l","p","i","t","a","t","i","o","n","s"," ","a","f","t","e",
      "r"," ","s","t","e","n","t">>,
    <<"S","w","e","l","l","i","n","g"," ","a","n","d"," ","F","A","T","I",
      "G","U","E"," ","s","i","n","c","e"," ","t","h","e"," ","s","t","e",
      "n","t">>,
    <<"m","i","l","d"," ","c","o","u","g","h">>,
    <<"r","i","n","g","i","n","g"," ","i","n"," ","e","a","r"," ","a","n",
      "d"," ","s","i","n","u","s"," ","p","r","e","s","s","u","r","e">>,
    <<"S","e","i","z","u","r","e"," ","l","a","s","t"," ","n","i","g","h",
      "t">> }

ConditionLists ==
  { <<>>,
    <<<<"A","r","r","h","y","t","h","m","i","a">>>>,
    <<<<"d","i","a","b","e","t","e","s">>, <<"t","i","n","n","i","t","u","s">>>> }

HintSpecialties ==
  { <<"C","a","r","d","i","o","l","o","g","y">>,
    <<"c","a","r","d","i","o","l","o","g","y">>,
    <<"E","N","T">>,
    <<"N","e","u","r","o","l","o","g","y">>,
    <<"G","a","s","t","r","o","e","n","t","e","r","o","l","o","g","y">>,
    <<"O","n","c","o","l","o","g","y">> }

SeverityScores == {0, 39, 40, 69, 70, 89, 90, 100}

\* one call of extract_subspecialty_hints
ExtractHints(symptoms, specialty, conditions) ==
  /\ query = NoQuery
  /\ query' = [symptoms |-> symptoms, specialty |-> specialty,
               conditions |-> conditions]
  /\ answer' = [done |-> TRUE, raised |-> FALSE,
                value |-> extract_subspecialty_hints(symptoms, specialty,
                                                     conditions)]
  /\ UNCHANGED <<cli_vars, web_vars, earlier>>

\* one call of calculate_condition_severity
CalculateSeverity(symptoms, urgency_score) ==
  /\ query = NoQuery
  /\ query' = [symptoms |-> symptoms, urgency_score |-> urgency_score]
  /\ answer' = [done |-> TRUE, raised |-> FALSE,
                value |-> calculate_condition_severity(symptoms,
                                                       urgency_score)]
  /\ UNCHANGED <<cli_vars, web_vars, earlier>>

NextAdvanced ==
  \/ \E symptoms \in Narratives, specialty \in HintSpecialties,
        conditions \in ConditionLists :
       ExtractHints(symptoms, specialty, conditions)
  \/ \E symptoms \in Narratives, urgency_score \in SeverityScores :
       CalculateSeverity(symptoms, urgency_score)

SpecAdvanced == Init /\ [][NextAdvanced]_vars

\* ------------------------------------------------------------------------
\* Vocabulary of the properties
\* ------------------------------------------------------------------------
StageKeys == {"gemini", "grok", "o4mini"}

Placeholder == [error |-> ErrorText]

\* the invocations of one step for subject k in the current run
CallsOf(k, step) == SelectSeq(calls, LAMBDA c : c.subject = k /\ c.step = step)

InPatient == pc \in {"mapping", "urgency", "evaluation", "matching", "returned"}

AllStagesFailed(r) ==
  /\ StageKeys \subseteq DOMAIN r.analyses
  /\ \A k \in StageKeys : r.analyses[k] = Placeholder

CompleteRecord(r) ==
  /\ StageKeys \subseteq DOMAIN r.analyses
  /\ \A k \in StageKeys : r.analyses[k] # None
  /\ "matched_doctor" \in DOMAIN r

\* ------------------------------------------------------------------------
\* C1  process_patient contains every stage failure: whatever combination
\* of the three stages fails, each failed stage's slot holds the error
\* placeholder, the later stages and the matcher are still invoked, and the
\* call returns a record; a raise never leaves process_patient (the run only
\* raises outside a patient, from loading or reporting).
\* ------------------------------------------------------------------------
C1_StageFailureContained ==
  /\ pc = "raised" => result = NoResult
  /\ pc = "returned" =>
       /\ "matched_doctor" \in DOMAIN result
       /\ Len(CallsOf(i, "mapping")) = 1
       /\ Len(CallsOf(i, "urgency")) = 1
       /\ Len(CallsOf(i, "evaluation")) = 1
       /\ Len(CallsOf(i, "matching")) = 1
       /\ CallsOf(i, "mapping")[1].failed =>
            result.analyses["gemini"] = Placeholder
       /\ CallsOf(i, "urgency")[1].failed =>
            result.analyses["grok"] = Placeholder
       /\ CallsOf(i, "evaluation")[1].failed =>
            result.analyses["o4mini"] = Placeholder

\* the mapping stage failed, the evaluation stage was still run and answered
C1_Witness ==
  /\ pc = "returned"
  /\ result.analyses["gemini"] = Placeholder
  /\ result.analyses["o4mini"] = O4Full

\* ------------------------------------------------------------------------
\* C4  every record process_patient returns has a non-null entry for each
\* of the three stages and a matched_doctor entry, and the urgency and
\* evaluation stages are only ever called with non-null earlier results.
\* ------------------------------------------------------------------------
C4_NoNullStageEntry ==
  /\ pc = "returned" => CompleteRecord(result)
  /\ \A k \in 1..Len(results) : CompleteRecord(results[k])
  /\ \A k \in 1..Len(calls) :
       /\ calls[k].step = "urgency" => calls[k].gemini # None
       /\ calls[k].step = "evaluation" =>
            calls[k].gemini # None /\ calls[k].grok # None

\* a stored record whose urgency entry is the placeholder and whose
\* evaluation stage was called with it
C4_Witness ==
  /\ Len(results) > 0
  /\ results[1].analyses["grok"] = Placeholder
  /\ results[1].matched_doctor # None
  /\ \E k \in 1..Len(calls) :
       calls[k].step = "evaluation" /\ calls[k].grok = Placeholder

\* ------------------------------------------------------------------------
\* C5 as stated: a record whose urgency stage failed still carries a
\* non-null final specialty and a severity value, and the run produces one
\* record per input subject.
\* ------------------------------------------------------------------------
C5_AsStated ==
  /\ \A k \in 1..Len(results) :
       results[k].analyses["grok"] = Placeholder =>
         /\ Get(results[k].analyses["o4mini"], "final_specialty", NoneStr)
              # NoneStr
         /\ "urgency_score" \in DOMAIN results[k].analyses["grok"]
  /\ pc \in {"reports", "done"} => Len(results) - base = Len(patients)

\* ------------------------------------------------------------------------
\* C5 amended  when the urgency stage fails for a subject of a run of
\* TriageOrchestrator, the evaluation stage is still called with the
\* (non-null) urgency placeholder, the matcher is called with the default
\* urgency score 50, the subject's record holds the placeholder in the
\* urgency slot and an evaluation entry that carries a final specialty only
\* if the evaluation stage itself succeeded, and the run appends exactly one
\* record per input subject.
\* ------------------------------------------------------------------------
C5_UrgencyFailureContained ==
  /\ \A k \in 1..Len(patients) :
       (CallsOf(k, "urgency") # << >> /\ CallsOf(k, "urgency")[1].failed) =>
         /\ CallsOf(k, "evaluation") # << >> =>
              CallsOf(k, "evaluation")[1].grok = Placeholder
         /\ CallsOf(k, "matching") # << >> =>
              CallsOf(k, "matching")[1].args.urgency_score = 50
         /\ base + k <= Len(results) =>
              /\ results[base + k].analyses["grok"] = Placeholder
              /\ "o4mini" \in DOMAIN results[base + k].analyses
              /\ "final_specialty" \in DOMAIN results[base + k].analyses["o4mini"]
                   => ~CallsOf(k, "evaluation")[1].failed
  /\ pc \in {"reports", "done"} => Len(results) - base = Len(patients)

\* a finished run holding a record whose urgency stage failed and whose
\* evaluation stage supplied a final specialty
C5_Witness ==
  /\ pc = "done"
  /\ Len(patients) > 0
  /\ results[base + 1].analyses["grok"] = Placeholder
  /\ results[base + 1].analyses["o4mini"] = O4Full
  /\ CallsOf(1, "matching")[1].args.urgency_score = 50

\* ------------------------------------------------------------------------
\* C6  in a run every subject gets the mapping, urgency, evaluation and
\* matching steps exactly once and in that order, whatever failed before,
\* and the steps of subject k+1 all come after the matching step of
\* subject k.
\* ------------------------------------------------------------------------
StepOrder == <<"mapping", "urgency", "evaluation", "matching">>

StepsDone ==
  CASE pc = "mapping" -> 0
    [] pc = "urgency" -> 1
    [] pc = "evaluation" -> 2
    [] pc = "matching" -> 3
    [] OTHER -> 4

C6_FixedStepOrder ==
  /\ \A k \in 1..Len(calls) :
       /\ calls[k].step = StepOrder[((k - 1) % 4) + 1]
       /\ calls[k].subject = ((k - 1) \div 4) + 1
  /\ InPatient => Len(calls) = 4 * (i - 1) + StepsDone
  /\ pc \in {"reports", "done"} => Len(calls) = 4 * Len(patients)

\* the second subject is at its urgency step after the first subject's
\* mapping stage failed
C6_Witness ==
  /\ pc = "urgency"
  /\ i = 2
  /\ calls[1].failed
  /\ Len(calls) = 5

\* ------------------------------------------------------------------------
\* C7  when all three stages failed for a subject there is no specialty at
\* all; the matcher call raises on it, the raise is caught, and
\* process_patient returns the record with three placeholders and
\* matched_doctor = None.
\* ------------------------------------------------------------------------
C7_TotalFailureContained ==
  [][(pc = "matching" /\ AllStagesFailed(result)) =>
       /\ pc' = "returned"
       /\ AllStagesFailed(result')
       /\ result'.matched_doctor = None
       /\ calls'[Len(calls')].step = "matching"
       /\ calls'[Len(calls')].failed
       /\ calls'[Len(calls')].args.specialty = NoneStr]_vars

\* the record returned after total failure
C7_Witness ==
  /\ pc = "returned"
  /\ AllStagesFailed(result)
  /\ result.matched_doctor = None
  /\ calls[Len(calls)].failed

\* ------------------------------------------------------------------------
\* The web front end
\* ------------------------------------------------------------------------
\* the background run of request r is active: started and not yet through
\* its finally clause
Active(r) == thread[r].pc \notin {"none", "dead"}

\* nothing is in progress: no start handler is between its check and its
\* response and no background run is active
Quiescent ==
  \A r \in Requests :
    /\ handler[r] \in {"new", "rejected", "accepted", "failed"}
    /\ ~Active(r)

\* the error event of the run of request r is in the queue q
ErrorLogged(r, q) ==
  \E k \in 1..Len(q) : q[k] = Update(r, "error", "error", 0)

\* the records of the patient list l, in order, are what list holds
RecordsOf(list, l) ==
  /\ Len(list) = Len(l)
  /\ \A k \in 1..Len(l) : list[k].patient = l[k]

\* C2 as stated (SpecWebRun): a web-started run in which an assessment
\* stage raised still ends with one record per subject of its patient file.
\* Violated: run_triage_background calls the stages outside any try block,
\* so the raise lands in the except clause of the whole run.
C2_AsStated ==
  \A r \in Requests :
    (thread[r].pc = "dead" /\ thread[r].cause = "stage")
      => /\ thread[r].i = Len(thread[r].patients)
         /\ Len(processing_status.results) = Len(thread[r].patients)

\* C3 as stated (SpecWeb): when the run of a request has gone through its
\* whole patient list, the result lists hold exactly one record per subject
\* of that list, in input order.  Violated when two requests were both
\* accepted: both runs append to the same lists and a reset empties them.
C3_AsStated ==
  \A r \in Requests :
    (thread[r].pc = "loop" /\ thread[r].i = Len(thread[r].patients))
      => /\ RecordsOf(processing_status.results, thread[r].patients)
         /\ RecordsOf(triage_instance.results, thread[r].patients)

\* C8 as stated (SpecWeb): at most one background run is active at any
\* time.  Violated: the check of is_running and the assignment that sets it
\* are separate statements of start_triage, so two handlers can both pass.
C8_AsStated == Cardinality({r \in Requests : Active(r)}) <= 1

\* C9 as stated (SpecWebRun): whenever nothing is in progress any more the
\* flag is_running is false again, so the next start is accepted.  Violated:
\* a start handler that fails after its reset leaves the flag set with no
\* run to clear it.
C9_AsStated == Quiescent => ~processing_status.is_running

\* C10 as stated (SpecWeb): when the run of a request leaves through its
\* except clause, the finally clause clears the flag with the step at
\* 'error' and the error event in the log, and leaves is_running false and
\* the step 'error'.  Violated when a second accepted request resets the
\* status and the queue between the two clauses.
C10_AsStated ==
  [][\A r \in Requests :
       (thread[r].pc = "finally" /\ thread[r].cause # ""
          /\ thread'[r].pc = "dead")
         => /\ processing_status.current_step = "error"
            /\ ErrorLogged(r, update_queue)
            /\ ~processing_status'.is_running
            /\ processing_status'.current_step = "error"]_vars


\* ------------------------------------------------------------------------
\* The event stream
\* ------------------------------------------------------------------------
\* the run is over and the queue is drained: no consumer can receive
\* anything but heartbeats any more
Drained == Quiescent /\ thread[1].pc = "dead" /\ update_queue = << >>

\* the last item consumer c has yielded, after a step in which it yielded one
Yielded(c) == delivered'[c][Len(delivered'[c])]

\* C11 as stated (SpecStream): once the run is over and the log is drained,
\* every event one connected consumer has received has been received by
\* every other connected consumer too.  Violated: get takes the item off
\* the one shared queue, so an event goes to a single consumer.
C11_AsStated ==
  Drained =>
    \A c1 \in Consumers, c2 \in Consumers :
      \A k \in 1..Len(delivered[c1]) :
        delivered[c1][k] # Heartbeat => InList(delivered[c1][k], delivered[c2])

\* C12 (SpecStream): whenever a consumer yields an item, the item is a
\* heartbeat exactly when the queue was empty, else it is the oldest queued
\* event; a heartbeat leaves the queue as it was.
C12_HeartbeatOnlyWhenEmpty ==
  [][\A c \in Consumers :
       delivered'[c] # delivered[c]
         => /\ (Yielded(c) = Heartbeat) <=> (update_queue = << >>)
            /\ Yielded(c) = Heartbeat => update_queue' = update_queue
            /\ Yielded(c) # Heartbeat
                 => /\ Yielded(c) = Head(update_queue)
                    /\ update_queue' = Tail(update_queue)]_vars

\* a consumer that received events, drained the queue and then yielded a
\* heartbeat, while the run goes on
C12_Witness ==
  \E c \in Consumers :
    /\ delivered[c] # << >>
    /\ delivered[c][Len(delivered[c])] = Heartbeat
    /\ Len(Events(delivered[c])) > 0
    /\ Active(1)

\* C13 (SpecWebSerial): the step of a start handler that refuses its
\* request changes neither the status record (the result list in it), nor
\* the results of the orchestrator, nor the event queue.
C13_RejectedStartChangesNothing ==
  [][\A r \in Requests :
       (handler[r] = "new" /\ handler'[r] = "rejected")
         => UNCHANGED <<processing_status, update_queue, triage_instance,
                        thread>>]_vars

\* a request refused while a run is active that has stored a result and
\* logged events
C13_Witness ==
  \E r \in Requests, q \in Requests :
    /\ handler[r] = "rejected"
    /\ Active(q)
    /\ processing_status.results # << >>
    /\ update_queue # << >>

\* the events of the run of request r that wait in the queue q for the next
\* consumer
Queued(r, q) == SelectSeq(q, LAMBDA u : u.run = r)

\* C14 as stated (SpecWeb): once the handler of an accepted request has
\* reset the log and while it has not yet started its run, the log holds no
\* event of that run and no event of any other run to hand to a consumer.
\* Violated when two requests were both accepted: the run of the first goes
\* on logging after the reset of the second.
C14_AsStated ==
  \A a \in Requests, b \in Requests :
    handler[b] = "reset"
      => /\ Queued(b, update_queue) = << >>
         /\ a # b => Queued(a, update_queue) = << >>

\* ------------------------------------------------------------------------
\* The matcher
\* ------------------------------------------------------------------------
\* the catalog key at place k and the request contain one another, both
\* lower-cased
FuzzyHit(db, specialty, k) ==
  \/ Contains(Lower(db[k].key), Lower(specialty))
  \/ Contains(Lower(specialty), Lower(db[k].key))

\* the catalog key at place k is the normalized request
ExactHit(db, specialty, k) == db[k].key = Title(specialty)

\* C15 (SpecMatch): for every call with a specialty, the department the
\* matcher resolves is that of the exact normalized key when the catalog
\* has it; else that of the first key, in catalog order, that contains the
\* lower-cased request or is contained in it; else there is none and the
\* call returns None.
C15_ExactThenFirstFuzzy ==
  (answer.done /\ query.specialty # NoneStr) =>
    LET db == doctors_database
        dep == ResolveDepartment(db, query.specialty)
        Exact(k) == ExactHit(db, query.specialty, k)
        Hit(k) == FuzzyHit(db, query.specialty, k)
        Keys == 1..Len(db)
    IN  /\ (\E k \in Keys : Exact(k))
             => \E k \in Keys : Exact(k) /\ dep = db[k].department
        /\ ((\A k \in Keys : ~Exact(k)) /\ (\E k \in Keys : Hit(k)))
             => \E k \in Keys :
                  /\ Hit(k)
                  /\ \A j \in 1..(k - 1) : ~Hit(j)
                  /\ dep = db[k].department
        /\ (\A k \in Keys : ~Exact(k) /\ ~Hit(k))
             => (dep = None /\ ~answer.raised /\ answer.value = None)

\* a request that is no key and names two keys, resolved to the first
C15_Witness ==
  /\ answer.done
  /\ query.specialty = S_CardiologyPediatrics
  /\ answer.value # None
  /\ ResolveDepartment(doctors_database, query.specialty)
       = Lookup(doctors_database, S_Cardiology)

\* the candidates of a department (None when the specialty is unresolved)
Candidates(department) ==
  IF department = None THEN << >> ELSE Get(department, "doctors", << >>)

\* C16 as stated (SpecMatch): every call returns, and it returns None
\* exactly when the specialty is unresolved or the resolved department has
\* no candidates.  Violated: a call whose specialty is None raises.
C16_AsStated ==
  answer.done =>
    /\ ~answer.raised
    /\ answer.value = None
         <=> Candidates(ResolveDepartment(doctors_database, query.specialty))
               = << >>


\* the doctors the call of the state scored, and their totals in list order
QueryDoctors == Candidates(ResolveDepartment(doctors_database, query.specialty))

QueryScores ==
  ScoreAll(QueryDoctors, Title(query.specialty), query.preferred_slot,
           query.patient_language, query.urgency_score, query.patient_age,
           query.sub_specialization_hint, query.patient_conditions)

Returned == answer.done /\ ~answer.raised /\ answer.value # None

\* C17 (SpecMatch): the returned candidate is a doctor of the resolved
\* department whose total is at least the total of every doctor of that
\* department, and every doctor listed before it has a strictly smaller
\* total.
C17_BestAndFirst ==
  Returned =>
    \E b \in 1..Len(QueryDoctors) :
      /\ QueryDoctors[b].name = answer.value.name
      /\ \A k \in 1..Len(QueryDoctors) : QueryScores[k] <= QueryScores[b]
      /\ \A k \in 1..(b - 1) : QueryScores[k] < QueryScores[b]

\* a call in which two doctors share the best total
C17_Witness ==
  /\ Returned
  /\ \E j, k \in 1..Len(QueryDoctors) :
       /\ j < k
       /\ QueryScores[j] = QueryScores[k]
       /\ QueryDoctors[j].name = answer.value.name
       /\ \A n \in 1..Len(QueryDoctors) : QueryScores[n] <= QueryScores[j]

SlotAt(k, u) == SlotScore(QueryDoctors[k], query.preferred_slot, u)

\* C19 (SpecMatch): for every doctor the call scored, the slot contribution
\* is 60 (exact) or 30 (alternative) at urgency 70 and 40 or 20 at urgency
\* 69, a doctor without slots stays at 0 at both, and the contribution at
\* the urgency of the call is the boosted one exactly when that urgency
\* is >= 70.
C19_SlotBoostFrom70 ==
  answer.done /\ ~answer.raised =>
    \A k \in 1..Len(QueryDoctors) :
      /\ SlotDetail(QueryDoctors[k], query.preferred_slot) = "exact"
           => SlotAt(k, 70) = 60000 /\ SlotAt(k, 69) = 40000
      /\ SlotDetail(QueryDoctors[k], query.preferred_slot) = "alternative"
           => SlotAt(k, 70) = 30000 /\ SlotAt(k, 69) = 20000
      /\ SlotDetail(QueryDoctors[k], query.preferred_slot) = "none"
           => SlotAt(k, 70) = 0 /\ SlotAt(k, 69) = 0
      /\ SlotAt(k, 69) > 0 => SlotAt(k, 70) > SlotAt(k, 69)
      /\ SlotAt(k, query.urgency_score)
           = IF query.urgency_score >= 70 THEN SlotAt(k, 70) ELSE SlotAt(k, 69)

\* a call at urgency exactly 70 that scored a doctor with the requested
\* slot, one with another slot only and one without slots
C19_Witness ==
  /\ Returned
  /\ query.urgency_score = 70
  /\ \E j, k, n \in 1..Len(QueryDoctors) :
       /\ SlotDetail(QueryDoctors[j], query.preferred_slot) = "exact"
       /\ SlotDetail(QueryDoctors[k], query.preferred_slot) = "alternative"
       /\ SlotDetail(QueryDoctors[n], query.preferred_slot) = "none"

\* C20 as stated (SpecMatch): the tier of a returned candidate is the band
\* of its reported match score (>= 100 excellent, >= 70 good, >= 50 fair,
\* otherwise low) and is never 'emergency'.  Violated: the tier is taken
\* from the total before rounding, so a total of 99.996 is reported as
\* 100.0 with the tier 'good'.
C20_AsStated ==
  Returned =>
    /\ answer.value.match_quality # "emergency"
    /\ answer.value.match_quality =
         IF answer.value.match_score >= 100000 THEN "excellent"
         ELSE IF answer.value.match_score >= 70000 THEN "good"
         ELSE IF answer.value.match_score >= 50000 THEN "fair"
         ELSE "low"

\* C21 as stated (SpecMatch): the numbers recorded in the breakdown of a
\* returned candidate are non-negative and add up to the reported match
\* score, within the rounding to hundredths.  Violated: the breakdown holds
\* labels and flags, the raw rating and the raw years of experience, not
\* the points each factor contributed.
C21_AsStated ==
  Returned =>
    LET details == answer.value.match_details
        sum == details.rating_score + Points(details.experience_years)
                 + (IF details.language_match THEN Points(1) ELSE 0)
                 + (IF "has_awards" \in DOMAIN details THEN Points(1) ELSE 0)
    IN  /\ details.rating_score >= 0
        /\ details.experience_years >= 0
        /\ sum - answer.value.match_score <= 5
        /\ answer.value.match_score - sum <= 5

Annotations == {"match_score", "match_details", "match_quality"}

\* the doctors of the catalog db, of all departments
CatalogDoctors(db) ==
  UNION { {Candidates(db[k].department)[n] :
             n \in 1..Len(Candidates(db[k].department))} : k \in 1..Len(db) }

\* C23 (SpecMatchRepeat): a call of find_best_doctor leaves the catalog as
\* it was; no doctor of the catalog carries a match score, details or a
\* tier after it, and the returned doctor is the catalog doctor plus those
\* three entries.
C23_CatalogUnchanged ==
  [][query' # query \/ earlier' # earlier =>
       /\ doctors_database' = doctors_database
       /\ \A d \in CatalogDoctors(doctors_database') :
            DOMAIN d \cap Annotations = {}
       /\ answer'.value # None =>
            \E d \in CatalogDoctors(doctors_database) :
              /\ DOMAIN answer'.value = DOMAIN d \cup Annotations
              /\ \A f \in DOMAIN d : answer'.value[f] = d[f]]_vars

\* three calls have been made and each returned a doctor
C23_Witness ==
  /\ Len(earlier) = 2
  /\ Returned
  /\ earlier[1].answer.value # None
  /\ earlier[2].answer.value # None
  /\ earlier[1].answer.value.name # answer.value.name

\* the doctor called name among the doctors the call scored
Named(name) ==
  QueryDoctors[CHOOSE n \in 1..Len(QueryDoctors) : QueryDoctors[n].name = name]

HasNamed(name) == \E n \in 1..Len(QueryDoctors) : QueryDoctors[n].name = name

\* C24 (SpecScenario): on the catalog of the single cardiologist with the
\* slot 09:00, rating 4.5 and 10 years, no label and no awards, the call
\* for 09:00 with no language, urgency 50, no age, no hint and no
\* conditions returns that doctor with the score 68 and the tier fair.
C24_ScenarioScore68 ==
  /\ answer.done
  /\ HasNamed("Solo")
  /\ query.patient_language = NoneLanguage
  /\ query.urgency_score = 50
  => /\ ~answer.raised
     /\ answer.value # None
     /\ answer.value.name = "Solo"
     /\ answer.value.match_score = 68000
     /\ answer.value.match_quality = "fair"

C24_Witness ==
  /\ Returned
  /\ HasNamed("Solo")
  /\ Named("Solo").slots = <<"09:00">>
  /\ Named("Solo").patient_rating = 4500
  /\ Named("Solo").experience_years = 10
  /\ DOMAIN Named("Solo") \cap {"sub_specialization", "awards"} = {}
  /\ query.preferred_slot = "09:00"
  /\ query.patient_language = NoneLanguage
  /\ query.urgency_score = 50
  /\ query.patient_age = NoneInt
  /\ query.sub_specialization_hint = NoneStr
  /\ query.patient_conditions = << >>

\* a call on a catalog of the two doctors With and Without
PairScored == answer.done /\ HasNamed("With") /\ HasNamed("Without")

\* C25 as stated (SpecScenario): of two doctors alike but for the slot and
\* the rating, the one with the requested slot is returned, for every
\* rating of the two and either order, at urgency below 70.  Violated:
\* rated 0 against 5 the two totals tie when the other doctor has another
\* slot, and the first of the list is returned.
C25_AsStated ==
  PairScored /\ query.urgency_score < 70 =>
    Returned /\ answer.value.name = "With"

\* C25 amended (SpecScenario): the doctor with the requested slot is
\* returned unless the other doctor has another slot, is rated a full 5
\* stars higher and comes first in the list; then the totals tie and the
\* other doctor is returned.
C25_SlotMatchWinsButFullAdvantage ==
  PairScored /\ query.urgency_score < 70 =>
    /\ Returned
    /\ answer.value.name = "With"
         <=> ~ /\ Named("Without").slots # << >>
               /\ Named("Without").patient_rating
                    - Named("With").patient_rating = 5000
               /\ QueryDoctors[1].name = "Without"

\* the other doctor is rated 4 stars higher, has another slot and comes
\* first, and the doctor with the requested slot is returned
C25_Witness ==
  /\ PairScored
  /\ Returned
  /\ QueryDoctors[1].name = "Without"
  /\ Named("Without").slots # << >>
  /\ Named("Without").patient_rating - Named("With").patient_rating = 4000
  /\ answer.value.name = "With"

\* the calls of the two classifiers
HintsCalled == answer.done /\ DOMAIN query = {"symptoms", "specialty", "conditions"}

SeverityCalled == answer.done /\ DOMAIN query = {"symptoms", "urgency_score"}

\* C26 as stated (SpecAdvanced): for a specialty of the table, named in any
\* letter case, the call returns the label of the first sub-specialty, in
\* table order, with the greatest number of keywords found in the
\* lower-cased narrative and conditions; it returns no hint when no
\* keyword is found or the specialty is not in the table.  Violated: the
\* table key 'ENT' is looked up as 'Ent' and never found.
C26_AsStated ==
  HintsCalled =>
    LET text == Lower(query.symptoms \o <<" ">> \o JoinSpace(query.conditions))
        rows == {k \in 1..Len(SUBSPECIALTY_KEYWORDS) :
                   Lower(SUBSPECIALTY_KEYWORDS[k].key) = Lower(query.specialty)}
        Hits(sub) == Cardinality({n \in 1..Len(sub.keywords) :
                                    Contains(text, sub.keywords[n])})
    IN  /\ rows = {} => answer.value = NoneStr
        /\ \A k \in rows :
             LET subs == SUBSPECIALTY_KEYWORDS[k].subs
             IN  IF \A n \in 1..Len(subs) : Hits(subs[n]) = 0
                 THEN answer.value = NoneStr
                 ELSE \E b \in 1..Len(subs) :
                        /\ \A n \in 1..Len(subs) : Hits(subs[n]) <= Hits(subs[b])
                        /\ \A n \in 1..(b - 1) : Hits(subs[n]) < Hits(subs[b])
                        /\ answer.value = Title(ReplaceUnderscore(subs[b].name))

\* C27 (SpecAdvanced): the severity is 'critical' exactly when the
\* lower-cased narrative contains an emergency keyword or the score is
\* >= 90; otherwise it is 'high' from 70, 'moderate' from 40 and 'low'
\* below 40.
C27_SeverityClassification ==
  SeverityCalled =>
    LET emergency == \E k \in 1..Len(EMERGENCY_KEYWORDS) :
                       Contains(Lower(query.symptoms), EMERGENCY_KEYWORDS[k])
        score == query.urgency_score
    IN  /\ answer.value \in {"critical", "high", "moderate", "low"}
        /\ answer.value = "critical" <=> emergency \/ score >= 90
        /\ ~emergency /\ score < 90 =>
             /\ answer.value = "high" <=> score >= 70
             /\ answer.value = "moderate" <=> 40 <= score /\ score < 70
             /\ answer.value = "low" <=> score < 40

\* a call at the score 70 on a narrative without an emergency keyword
C27_Witness ==
  /\ SeverityCalled
  /\ query.urgency_score = 70
  /\ answer.value = "high"

\* the matcher calls of the current run, as positions in calls
MatchingCalls == {k \in 1..Len(calls) : calls[k].step = "matching"}

\* whether the stage results of subject n of the current run can be read
\* off the state, and those results
HasAnalyses(n) == base + n <= Len(results) \/ (pc = "returned" /\ i = n)

AnalysesOf(n) ==
  IF base + n <= Len(results) THEN results[base + n].analyses
  ELSE result.analyses

\* C28 (Spec): the specialty handed to the matcher is the evaluation
\* result's final_specialty when that result has one, and otherwise the
\* mapping result's primary_specialty (None when that is missing too).
C28_SpecialtyArgument ==
  \A k \in MatchingCalls :
    HasAnalyses(calls[k].subject) =>
      LET an == AnalysesOf(calls[k].subject)
      IN  calls[k].args.specialty =
            IF "final_specialty" \in DOMAIN an["o4mini"]
            THEN an["o4mini"].final_specialty
            ELSE IF "primary_specialty" \in DOMAIN an["gemini"]
                 THEN an["gemini"].primary_specialty
                 ELSE NoneStr

\* two matcher calls of one run: one got the final specialty of the
\* evaluation, which differs from the mapping's, the other fell back to the
\* mapping's specialty after the evaluation failed
C28_Witness ==
  \E j, k \in MatchingCalls :
    /\ HasAnalyses(calls[j].subject)
    /\ HasAnalyses(calls[k].subject)
    /\ AnalysesOf(calls[j].subject)["o4mini"] = O4Full
    /\ AnalysesOf(calls[j].subject)["gemini"] = GeminiFull
    /\ calls[j].args.specialty = S_Pediatrics
    /\ AnalysesOf(calls[k].subject)["o4mini"] = Placeholder
    /\ calls[k].args.specialty = S_Cardiology

\* C29 as stated (Spec): the hint handed to the matcher is the first entry
\* of the evaluation result's potential_conditions when that list is there
\* and not empty, and no hint otherwise.  Violated: the hint is read from
\* the mapping result.
C29_AsStated ==
  \A k \in MatchingCalls :
    HasAnalyses(calls[k].subject) =>
      LET an == AnalysesOf(calls[k].subject)
          listed == Get(an["o4mini"], "potential_conditions", << >>)
      IN  calls[k].args.sub_specialization_hint =
            IF listed # << >> THEN listed[1] ELSE NoneStr

\* C29 amended (Spec): the hint handed to the matcher is the first entry of
\* the mapping result's potential_conditions when that list is there and
\* not empty, and no hint otherwise.
C29_HintFromMapping ==
  \A k \in MatchingCalls :
    HasAnalyses(calls[k].subject) =>
      LET an == AnalysesOf(calls[k].subject)
          listed == Get(an["gemini"], "potential_conditions", << >>)
      IN  calls[k].args.sub_specialization_hint =
            IF listed # << >> THEN listed[1] ELSE NoneStr

\* two matcher calls of one run: one with the first condition of the
\* mapping as hint, the other without hint after the mapping failed
C29_Witness ==
  \E j, k \in MatchingCalls :
    /\ HasAnalyses(calls[j].subject)
    /\ HasAnalyses(calls[k].subject)
    /\ AnalysesOf(calls[j].subject)["gemini"] = GeminiFull
    /\ calls[j].args.sub_specialization_hint = S_Stent
    /\ AnalysesOf(calls[k].subject)["gemini"] = Placeholder
    /\ calls[k].args.sub_specialization_hint = NoneStr

\* C30 (Spec): the urgency score handed to the matcher is the urgency
\* result's urgency_score, and 50 when the urgency stage failed or its
\* result has no urgency_score.
C30_UrgencyArgument ==
  \A k \in MatchingCalls :
    HasAnalyses(calls[k].subject) =>
      LET an == AnalysesOf(calls[k].subject)
      IN  /\ "urgency_score" \in DOMAIN an["grok"] =>
               calls[k].args.urgency_score = an["grok"].urgency_score
          /\ "urgency_score" \notin DOMAIN an["grok"] =>
               calls[k].args.urgency_score = 50
          /\ CallsOf(calls[k].subject, "urgency")[1].failed =>
               calls[k].args.urgency_score = 50

\* two matcher calls of one run: one with the score the urgency stage
\* gave, the other with 50 after the stage answered without a score
C30_Witness ==
  \E j, k \in MatchingCalls :
    /\ HasAnalyses(calls[j].subject)
    /\ HasAnalyses(calls[k].subject)
    /\ AnalysesOf(calls[j].subject)["grok"] = GrokFull
    /\ calls[j].args.urgency_score = 85
    /\ AnalysesOf(calls[k].subject)["grok"] = EmptyDict
    /\ ~CallsOf(calls[k].subject, "urgency")[1].failed
    /\ calls[k].args.urgency_score = 50

\* whether the stage results stored so far for subject n of the current run
\* can be read off the state
HasStored(n) == base + n <= Len(results) \/ (i = n /\ InPatient)

\* C31 (Spec): the urgency stage is called with the subject's own profile
\* and the mapping result stored for that subject (the placeholder when
\* the mapping failed), the evaluation stage with the subject's own
\* profile and the mapping and urgency results stored for that subject.
C31_StageArguments ==
  \A k \in 1..Len(calls) :
    /\ calls[k].step \in {"mapping", "urgency", "evaluation"} =>
         calls[k].patient = patients[calls[k].subject]
    /\ calls[k].step \in {"urgency", "evaluation"}
         /\ HasStored(calls[k].subject) =>
         /\ calls[k].gemini = AnalysesOf(calls[k].subject)["gemini"]
         /\ CallsOf(calls[k].subject, "mapping")[1].failed =>
              calls[k].gemini = Placeholder
    /\ calls[k].step = "evaluation" /\ HasStored(calls[k].subject) =>
         /\ calls[k].grok = AnalysesOf(calls[k].subject)["grok"]
         /\ CallsOf(calls[k].subject, "urgency")[1].failed =>
              calls[k].grok = Placeholder

\* the evaluation stage has been called for the second subject, whose
\* mapping failed, after the mapping of the first subject had succeeded
C31_Witness ==
  /\ Len(results) - base >= 1
  /\ results[base + 1].analyses["gemini"] = GeminiFull
  /\ \E k \in 1..Len(calls) :
       /\ calls[k].step = "evaluation"
       /\ calls[k].subject = 2
       /\ calls[k].gemini = Placeholder
       /\ calls[k].grok = GrokFull
       /\ calls[k].patient = patients[2]

\* the sub-specialization points of doctor k of the doctors the call scored
SubSpecAt(k) ==
  SubSpecScore(QueryDoctors[k], query.sub_specialization_hint,
               query.patient_conditions)

\* C32 (SpecMatch): for every doctor the call scored, the sub-specialization
\* points are 0, 10, 20 or 30.  With a hint they are 30 when the hint or
\* one of its words is found in the doctor's label, 10 when the label is
\* not empty but unrelated, 0 when there is no label, and never 20;
\* without a hint they are 20 when a word of the conditions is found in
\* the label and 0 otherwise.
C32_SubspecialtyPoints ==
  answer.done /\ ~answer.raised =>
    \A k \in 1..Len(QueryDoctors) :
      LET d == QueryDoctors[k]
          label == IF "sub_specialization" \in DOMAIN d
                   THEN Lower(d.sub_specialization) ELSE << >>
          hint == query.sub_specialization_hint
          hinted ==
            \/ Contains(label, Lower(hint))
            \/ \E n \in 1..Len(Split(Lower(hint))) :
                 Contains(label, Split(Lower(hint))[n])
          conditioned ==
            \E n \in 1..Len(query.patient_conditions) :
              \E w \in 1..Len(Split(Lower(query.patient_conditions[n]))) :
                Contains(label, Split(Lower(query.patient_conditions[n]))[w])
      IN  /\ SubSpecAt(k) \in {0, 10000, 20000, 30000}
          /\ hint # NoneStr =>
               /\ SubSpecAt(k) = 30000 <=> hinted
               /\ SubSpecAt(k) = 10000 <=> ~hinted /\ label # << >>
               /\ SubSpecAt(k) = 0 <=> ~hinted /\ label = << >>
          /\ hint = NoneStr =>
               /\ SubSpecAt(k) = 20000 <=> conditioned
               /\ SubSpecAt(k) = 0 <=> ~conditioned

\* a call with a hint and with conditions that scored a doctor whose label
\* holds a word of the conditions but not the hint (10 points), and a
\* doctor without label (0 points)
C32_Witness ==
  /\ Returned
  /\ query.sub_specialization_hint = S_Stent
  /\ query.patient_conditions = <<S_Diabetes, S_Interventional>>
  /\ \E j, k \in 1..Len(QueryDoctors) :
       /\ QueryDoctors[j].name = "Rao"
       /\ SubSpecAt(j) = 10000
       /\ "sub_specialization" \notin DOMAIN QueryDoctors[k]
       /\ SubSpecAt(k) = 0

\* the age points of doctor k of the doctors the call scored
AgeAt(k) ==
  AgeScore(QueryDoctors[k], query.patient_age, Title(query.specialty))

\* the call resolved the request to the pediatric department of the
\* catalog, by the exact key or by the substring search
ResolvedPediatrics ==
  /\ HasKey(doctors_database, S_Pediatrics)
  /\ \E k \in 1..Len(doctors_database) :
       /\ doctors_database[k].key = S_Pediatrics
       /\ IF HasKey(doctors_database, Title(query.specialty))
          THEN ExactHit(doctors_database, query.specialty, k)
          ELSE /\ FuzzyHit(doctors_database, query.specialty, k)
               /\ \A j \in 1..(k - 1) :
                    ~FuzzyHit(doctors_database, query.specialty, j)

\* C33 (SpecMatch), as stated: every doctor the call scored gets the 10
\* age points exactly when the age is below 18 and the request was
\* resolved to the pediatric department, by exact key or by the substring
\* search; it gets the 5 points exactly when the age is 65 or more and the
\* doctor has 10 or more years of experience; never both.
C33_AsStated ==
  answer.done /\ ~answer.raised =>
    \A k \in 1..Len(QueryDoctors) :
      LET age == query.patient_age
          minor == age # NoneInt /\ age < 18
          senior == age # NoneInt /\ age >= 65
      IN  /\ AgeAt(k) \in {0, 5000, 10000}
          /\ AgeAt(k) = 10000 <=> minor /\ ResolvedPediatrics
          /\ AgeAt(k) = 5000 <=>
               senior /\ Get(QueryDoctors[k], "experience_years", 0) >= 10

\* C34 (Spec), as stated: when a run of the orchestrator reaches its
\* reports, also a second run of the same orchestrator, the result list the
\* reports are made from holds the records of that run only: one record
\* per subject of the run, in input order.
C34_AsStated ==
  pc \in {"reports", "done"} =>
    /\ Len(results) = Len(patients)
    /\ \A k \in 1..Len(results) : results[k].patient = patients[k]

\* the updates of one subject in the order run_triage_background streams
\* them (app.py 116-199)
TagOrder ==
  <<"patient", "gemini", "gemini_done", "grok", "grok_done", "o4mini",
    "o4mini_done", "matching", "matched", "completed">>

Rank(tag) == CHOOSE n \in 1..Len(TagOrder) : TagOrder[n] = tag

\* the log of the run as the one consumer sees it: what it has been given so
\* far, then what waits in the queue
StreamedLog == Events(delivered[1]) \o update_queue

\* C35 (SpecStreamRun): in one run with one consumer, the events the
\* consumer has received followed by the events still queued are in the
\* order of execution: for each subject the processing-start event, then
\* the mapping, urgency, evaluation and matching events in that order, then
\* the completion event, each at most once; and every event of subject i
\* comes before every event of subject i + 1.
C35_EventOrder ==
  \A a, b \in 1..Len(StreamedLog) :
    a < b /\ StreamedLog[a].subject > 0 /\ StreamedLog[b].subject > 0 =>
      /\ StreamedLog[a].subject <= StreamedLog[b].subject
      /\ StreamedLog[a].subject = StreamedLog[b].subject =>
           Rank(StreamedLog[a].tag) < Rank(StreamedLog[b].tag)

\* the consumer has received every event of two subjects, the completion
\* event of the second included, while later events of the run are queued
C35_Witness ==
  /\ Len(SelectSeq(Events(delivered[1]), LAMBDA u : u.subject = 1)) = Len(TagOrder)
  /\ Len(SelectSeq(Events(delivered[1]), LAMBDA u : u.subject = 2)) = Len(TagOrder)
  /\ delivered[1][Len(delivered[1])] = Update(1, "success", "completed", 2)
  /\ update_queue # << >>

\* C36 (SpecAdvanced), as stated: for every key of the keyword table, a call
\* of extract_subspecialty_hints that names the specialty exactly as the
\* table spells it, with a narrative holding one of the keywords of that
\* key, returns a hint.
C36_AsStated ==
  HintsCalled =>
    \A k \in 1..Len(SUBSPECIALTY_KEYWORDS) :
      LET text == Lower(query.symptoms \o <<" ">> \o JoinSpace(query.conditions))
          subs == SUBSPECIALTY_KEYWORDS[k].subs
      IN  /\ SUBSPECIALTY_KEYWORDS[k].key = query.specialty
          /\ \E n \in 1..Len(subs) : \E w \in 1..Len(subs[n].keywords) :
               Contains(text, subs[n].keywords[w])
          => answer.value # NoneStr

\* the specialties the mapping stage is offered (gemini_analyzer.py 68-78),
\* each with the position in SUPPORTED_SPECIALTIES of the data file that
\* holds its doctors
OfferedSpecialties ==
  << [name |-> <<"C","a","r","d","i","o","l","o","g","y">>, file |-> 1],
     [name |-> <<"G","a","s","t","r","o","e","n","t","e","r","o","l","o","g","y">>, file |-> 4],
     [name |-> <<"H","e","p","a","t","o","l","o","g","y">>, file |-> 5],
     [name |-> <<"N","e","u","r","o","l","o","g","y">>, file |-> 6],
     [name |-> <<"O","r","t","h","o","p","e","d","i","c","s">>, file |-> 8],
     [name |-> <<"P","e","d","i","a","t","r","i","c","s">>, file |-> 9],
     [name |-> <<"D","e","r","m","a","t","o","l","o","g","y">>, file |-> 2],
     [name |-> <<"O","p","h","t","h","a","l","m","o","l","o","g","y">>, file |-> 7],
     [name |-> <<"E","N","T">>, file |-> 3],
     [name |-> <<"P","s","y","c","h","i","a","t","r","y">>, file |-> 10],
     [name |-> <<"P","u","l","m","o","n","o","l","o","g","y">>, file |-> 11] >>

\* C37 (SpecMatch), as stated: for every supported specialty whose data
\* file was loaded with at least one doctor, a call that names the
\* specialty as the mapping stage is offered it scores the doctors of that
\* specialty's own department and returns one of them, never None and
\* never a doctor of another department.
C37_AsStated ==
  answer.done /\ ~answer.raised =>
    \A n \in 1..Len(OfferedSpecialties) :
      LET key == Title(SUPPORTED_SPECIALTIES[OfferedSpecialties[n].file])
      IN  /\ query.specialty = OfferedSpecialties[n].name
          /\ HasKey(doctors_database, key)
          /\ Candidates(Lookup(doctors_database, key)) # << >>
          => /\ QueryDoctors = Candidates(Lookup(doctors_database, key))
             /\ answer.value # None

\* the counters of the status dict are in step: as many stored records as
\* the current subject's number, or one fewer, within the total, and the
\* progress is a percentage
StatusInStep ==
  /\ 0 <= Len(processing_status.results)
  /\ Len(processing_status.results) <= processing_status.current_patient
  /\ processing_status.current_patient <= processing_status.total_patients
  /\ Len(processing_status.results) >= processing_status.current_patient - 1
  /\ processing_status.progress \in 0..100

C39_SameRecord ==
  /\ triage_instance.results = processing_status.results
  /\ \A k \in 1..Len(processing_status.results) :
       LET r == processing_status.results[k]
       IN  /\ r.patient = thread[1].patients[k]
           /\ r = process_patient(doctors_database, r.patient,
                                  Returns(r.analyses["gemini"]),
                                  Returns(r.analyses["grok"]),
                                  Returns(r.analyses["o4mini"]))

\* two records are stored, the first for a subject whose mapping and
\* evaluation stages named different specialties and who was given a doctor
C39_Witness ==
  /\ Len(processing_status.results) = 2
  /\ processing_status.results[1].analyses["gemini"] = GeminiFull
  /\ processing_status.results[1].analyses["o4mini"] = O4Full
  /\ processing_status.results[1].matched_doctor # None

\* the events the consumers 1..c have yielded, one after the other
RECURSIVE AllDelivered(_)
AllDelivered(c) ==
  IF c = 0 THEN << >> ELSE AllDelivered(c - 1) \o Events(delivered[c])

\* C40 (SpecStreamSerial): every event put on the log is yielded at most
\* once by all consumers together, an event a consumer has yielded is no
\* longer in the queue, and an event taken out by the clearing loop of a
\* start request has been yielded to no consumer.
C40_AtMostOnce ==
  LET all == AllDelivered(MaxConsumers)
  IN  /\ \A a, b \in 1..Len(all) : a # b => all[a] # all[b]
      /\ \A a \in 1..Len(all) :
           /\ ~InList(all[a], update_queue)
           /\ all[a] \notin discarded

\* the second start request has cleared events of the first run out of the
\* queue after two consumers had each yielded events of that run, and a
\* consumer has yielded an event of the second run
C40_Witness ==
  /\ discarded # {}
  /\ \A e \in discarded : e.run = 1
  /\ \E n \in 1..Len(delivered[1]) : delivered[1][n].run = 1
  /\ \E n \in 1..Len(delivered[2]) : delivered[2][n].run = 1
  /\ \E c \in Consumers : \E n \in 1..Len(delivered[c]) : delivered[c][n].run = 2
=========================================================================
